---- MODULE Spec2Model ----
(***************************************************************************)
(* Collector pipeline of turnstile-api: the chunked poll cycle of         *)
(* CollectorService (services/collector-service.ts), the L1 and L2        *)
(* scanners (collectors/l1.ts, collectors/l2.ts) and the upsert-based      *)
(* persistence layer (db.ts).                                              *)
(*                                                                         *)
(* A column value is Null (SQL NULL) or Some(v).  A JavaScript object is   *)
(* a record; a key that is absent or undefined is absent from its DOMAIN.  *)
(***************************************************************************)
EXTENDS Integers, Sequences, FiniteSets, TLC

\* ------------------------------------------------------------------ bounds
\* Highest block number a chain head can be observed at.
MaxBlock == 3
\* Largest configured chunk size (L1_CHUNK_SIZE / L2_CHUNK_SIZE).
MaxChunk == 2
\* Largest configured start block (L1_START_BLOCK / L2_START_BLOCK).
MaxStart == 2
\* Highest value of the wall clock read by new Date().
MaxClock == 1
\* pollingInterval of the service, counted in ticks of its timer.
PollingInterval == 2

VARIABLES
  config,     \* ResolvedCollectorServiceConfig: per chain startBlock, chunkSize
  progress,   \* block_progress table: chain label -> last_scanned_block
  store,      \* tokens table: a set of rows
  clock,      \* the wall clock
  pc,         \* per collector instance: the await poll() is suspended at
  loc,        \* per collector instance: the local variables of poll()
  result,     \* per collector instance: outcome of the last poll()
  seen,       \* history: per instance, the windows of the last poll() if it returned true
  applied,    \* history: every record handed to an upsert so far
  windows,    \* history: per chain, the windows whose cursor was written
  failed,     \* history: per instance, the chains the poll() that raised was working on
  live,       \* the collector instances that were started
  env,        \* process.env: variable name -> its string, "" when it is not set
  main,       \* where main() of the collector process is
  timer,      \* per collector instance: what is left of the setTimeout start() awaits
  db,         \* db.ts: the module's handle, the handles made, the destroyDatabase() calls
  client,     \* api-client: a getAllTokens() call and the getAllPages() it consumes
  served,     \* api-service: the request GET /tokens last handled, and its response
  rollup      \* the Register events the L2 node serves, in chain order

vars == <<config, progress, store, clock, pc, loc, result, seen,
          applied, windows, failed, live, env, main, timer, db, client, served, rollup>>

\* The state around poll(): main() and the loop of start(), the datastore handle
\* of the process, and the api client and service that read what was collected.
driver == <<env, main, timer, db, client, served, rollup>>

Chains == {"L1", "L2"}
\* Collector processes that may run against the same datastore.
Instances == {1, 2}

\* ------------------------------------------------------------------ values
Null == <<>>
Some(v) == <<v>>
Has(o, k) == k \in DOMAIN o

Min(a, b) == IF a < b THEN a ELSE b

\* String.prototype.toLowerCase on the address strings that occur.
ToLowerCase(s) ==
  CASE s = "0xA1" -> "0xa1"
    [] s = "0xB2" -> "0xb2"
    [] s = "0xAZ01" -> "0xaz01"
    [] s = "0xAZ02" -> "0xaz02"
    [] s = "0xAZ9" -> "0xaz9"
    [] s = "AZ03" -> "az03"
    [] OTHER -> s

\* viem isAddress: 0x + 40 hex digits; the strings below stand for such values.
IsAddress(s) == s \in {"0xA1", "0xa1", "0xB2", "0xb2"}

\* normalizeL1Address; "throw" stands for the raised Error.
normalizeL1Address(address) ==
  IF ~IsAddress(address) THEN "throw" ELSE ToLowerCase(address)

\* The strings that stand for addresses: "0xA1" for 0x and 40 hex digits, "0xAZ01"
\* for 0x and 64 hex digits, "0xAZ9" for 0x and 63 hex digits, "AZ03" for 66 hex
\* digits without 0x, each also in lower case, and the empty string.
AddressStrings ==
  {"0xA1", "0xa1", "0xB2", "0xb2", "0xAZ01", "0xaz01", "0xAZ02", "0xaz02",
   "0xAZ9", "0xaz9", "AZ03", "az03", ""}

\* address.startsWith("0x")
StartsWith0x(s) == s \in AddressStrings \ {"AZ03", "az03", ""}

\* address.length
Length(s) ==
  CASE s \in {"0xA1", "0xa1", "0xB2", "0xb2"} -> 42
    [] s \in {"0xAZ01", "0xaz01", "0xAZ02", "0xaz02", "AZ03", "az03"} -> 66
    [] s \in {"0xAZ9", "0xaz9"} -> 65
    [] s = "" -> 0

\* Faulty variant: the length is not looked at.
IsL2AddressByPrefix(s) == StartsWith0x(s)

\* address.startsWith("0x") && address.length === 66
IsL2Address(s) == StartsWith0x(s) /\ Length(s) = 66

normalizeL2Address(address) ==
  IF ~IsL2Address(address) THEN "throw" ELSE ToLowerCase(address)

\* ------------------------------------------------------- chain histories
\* Registered logs of the L1 portal, in log order.
PortalLogs == <<
  [blockNumber |-> 1, transactionHash |-> "0xt1", eventName |-> "Registered",
   args |-> [token |-> "0xA1"]],
  [blockNumber |-> 2, transactionHash |-> "0xt2", eventName |-> "Registered",
   args |-> [token |-> "0xB2"]],
  [blockNumber |-> 3, transactionHash |-> "0xt3", eventName |-> "Registered",
   args |-> [token |-> "0xB2"]] >>

\* MessageSent logs of the L1 inbox; 0xt2 has none, 0xt3 has two.
InboxLogs == <<
  [blockNumber |-> 1, transactionHash |-> "0xt1", args |-> [l2BlockNumber |-> 1]],
  [blockNumber |-> 3, transactionHash |-> "0xt3", args |-> [l2BlockNumber |-> 2]],
  [blockNumber |-> 3, transactionHash |-> "0xt3", args |-> [l2BlockNumber |-> 3]] >>

\* StatusUpdated logs of the L1 allow-list; one carries no status, one no
\* address, and the last one carries status 0.
AllowListLogs == <<
  [blockNumber |-> 1, transactionHash |-> "0xn1", eventName |-> "StatusUpdated",
   args |-> [addr |-> "0xA1"]],
  [blockNumber |-> 1, transactionHash |-> "0xp1", eventName |-> "StatusUpdated",
   args |-> [addr |-> "0xA1", status |-> 1]],
  [blockNumber |-> 2, transactionHash |-> "0xr1", eventName |-> "StatusUpdated",
   args |-> [addr |-> "0xA1", status |-> 2]],
  [blockNumber |-> 2, transactionHash |-> "0xn2", eventName |-> "StatusUpdated",
   args |-> [status |-> 2]],
  [blockNumber |-> 2, transactionHash |-> "0xr2", eventName |-> "StatusUpdated",
   args |-> [addr |-> "0xb2", status |-> 3]],
  [blockNumber |-> 3, transactionHash |-> "0xs3", eventName |-> "StatusUpdated",
   args |-> [addr |-> "0xb2", status |-> 0]] >>

\* Register events of the L2 portal, ordered by (block, tx-index, log-index).
L2Events == <<
  [blockNumber |-> 1, txIndex |-> 1, logIndex |-> 0,
   ethToken |-> "0xb2", aztecToken |-> "0xAZ02"],
  [blockNumber |-> 2, txIndex |-> 0, logIndex |-> 0,
   ethToken |-> "0xA1", aztecToken |-> "0xAZ01"] >>

\* An L2 chain whose block 2 also holds a Register event with a rollup address
\* one digit short.
L2EventsMalformed == <<
  [blockNumber |-> 1, txIndex |-> 1, logIndex |-> 0,
   ethToken |-> "0xb2", aztecToken |-> "0xAZ02"],
  [blockNumber |-> 2, txIndex |-> 0, logIndex |-> 0,
   ethToken |-> "0xA1", aztecToken |-> "0xAZ01"],
  [blockNumber |-> 2, txIndex |-> 1, logIndex |-> 0,
   ethToken |-> "0xb2", aztecToken |-> "0xAZ9"] >>

\* ERC-20 name / symbol / decimals of a token contract.
readContract(address, functionName) ==
  LET t == ToLowerCase(address) IN
  CASE functionName = "name"     -> (IF t = "0xa1" THEN "Token A" ELSE "Token B")
    [] functionName = "symbol"   -> (IF t = "0xa1" THEN "TKA" ELSE "TKB")
    [] functionName = "decimals" -> (IF t = "0xa1" THEN 18 ELSE 6)

\* publicClient.getLogs restricted to a block range.
getLogs(logs, fromBlock, toBlock) ==
  SelectSeq(logs, LAMBDA l : fromBlock <= l.blockNumber /\ l.blockNumber <= toBlock)

\* ---------------------------------------------------------------- scanners
\* Faulty variant: the first log of a hash is kept.
inboxLogsByTxHashFirst(inboxLogs, tx) ==
  LET hits == SelectSeq(inboxLogs, LAMBDA l : l.transactionHash = tx)
  IN IF hits = <<>> THEN <<>> ELSE <<hits[1]>>

\* inboxLogsByTxHash.get(tx): Map.set overwrites, so the last log of a hash is kept;
\* <<>> stands for undefined.
inboxLogsByTxHash(inboxLogs, tx) ==
  LET hits == SelectSeq(inboxLogs, LAMBDA l : l.transactionHash = tx)
  IN IF hits = <<>> THEN <<>> ELSE <<hits[Len(hits)]>>

RECURSIVE CorrelateLogs(_, _)
CorrelateLogs(portalLogs, inboxLogs) ==
  IF portalLogs = <<>> THEN <<>>
  ELSE
    LET portalLog == Head(portalLogs)
        correlatedInboxLog == inboxLogsByTxHash(inboxLogs, portalLog.transactionHash)
        rest == CorrelateLogs(Tail(portalLogs), inboxLogs)
    IN IF correlatedInboxLog = <<>> THEN rest
       ELSE IF portalLog.eventName # "Registered" \/ ~Has(portalLog.args, "token") THEN rest
       ELSE
         LET tokenAddress == portalLog.args.token IN
         << [symbol |-> Some(readContract(tokenAddress, "symbol")),
             name |-> Some(readContract(tokenAddress, "name")),
             decimals |-> Some(readContract(tokenAddress, "decimals")),
             l1Address |-> Some(normalizeL1Address(tokenAddress)),
             l1RegistrationBlock |-> Some(portalLog.blockNumber),
             l1RegistrationTx |-> Some(portalLog.transactionHash),
             l2RegistrationBlock |-> Some(correlatedInboxLog[1].args.l2BlockNumber)] >>
         \o rest

\* The transaction hashes console.warn names in the loop of getL1TokenRegistrations.
RECURSIVE CorrelationWarnings(_, _)
CorrelationWarnings(portalLogs, inboxLogs) ==
  IF portalLogs = <<>> THEN <<>>
  ELSE
    LET portalLog == Head(portalLogs)
        correlatedInboxLog == inboxLogsByTxHash(inboxLogs, portalLog.transactionHash)
        rest == CorrelationWarnings(Tail(portalLogs), inboxLogs)
    IN IF correlatedInboxLog = <<>> THEN <<portalLog.transactionHash>> \o rest
       ELSE rest

\* The readContract calls of the loop of getL1TokenRegistrations, in call order.
RECURSIVE MetadataReads(_, _)
MetadataReads(portalLogs, inboxLogs) ==
  IF portalLogs = <<>> THEN <<>>
  ELSE
    LET portalLog == Head(portalLogs)
        correlatedInboxLog == inboxLogsByTxHash(inboxLogs, portalLog.transactionHash)
        rest == MetadataReads(Tail(portalLogs), inboxLogs)
    IN IF correlatedInboxLog = <<>> THEN rest
       ELSE IF portalLog.eventName # "Registered" \/ ~Has(portalLog.args, "token") THEN rest
       ELSE
         LET tokenAddress == portalLog.args.token IN
         << [address |-> tokenAddress, functionName |-> "name"],
            [address |-> tokenAddress, functionName |-> "symbol"],
            [address |-> tokenAddress, functionName |-> "decimals"] >>
         \o rest

\* Faulty variant: a portal log without its inbox log makes the scan raise.
getL1TokenRegistrationsStrict(fromBlock, toBlock) ==
  IF CorrelationWarnings(getLogs(PortalLogs, fromBlock, toBlock),
                         getLogs(InboxLogs, fromBlock, toBlock)) # <<>>
  THEN << [l1Address |-> Some("throw")] >>
  ELSE CorrelateLogs(getLogs(PortalLogs, fromBlock, toBlock),
                     getLogs(InboxLogs, fromBlock, toBlock))

\* L1Collector.getL1TokenRegistrations
getL1TokenRegistrations(fromBlock, toBlock) ==
  CorrelateLogs(getLogs(PortalLogs, fromBlock, toBlock),
                getLogs(InboxLogs, fromBlock, toBlock))

\* allowListStatusNumberToString (utils/l1.ts)
allowListStatusNumberToString(status) ==
  CASE status = 1 -> "PROPOSED"
    [] status = 2 -> "ACCEPTED"
    [] status = 3 -> "REJECTED"
    [] OTHER -> "UNKNOWN"

RECURSIVE MapAllowListLogs(_)
MapAllowListLogs(allowListLogs) ==
  IF allowListLogs = <<>> THEN <<>>
  ELSE
    LET log == Head(allowListLogs)
        rest == MapAllowListLogs(Tail(allowListLogs))
    IN IF log.eventName # "StatusUpdated" \/ ~Has(log.args, "addr")
          \/ ~Has(log.args, "status") \/ log.args.status = 0
       THEN rest
       ELSE
         LET l1AllowListStatus == allowListStatusNumberToString(log.args.status)
             resolution == l1AllowListStatus \in {"ACCEPTED", "REJECTED"}
             base == [l1AllowListStatus |-> Some(l1AllowListStatus),
                      l1Address |-> Some(normalizeL1Address(log.args.addr))]
         IN << IF resolution
               THEN base @@ [l1AllowListResolutionTx |-> Some(log.transactionHash)]
               ELSE base @@ [l1AllowListProposalTx |-> Some(log.transactionHash)] >>
            \o rest

\* Faulty variant: only the first log of the window is mapped.
getL1TokenAllowListEventsFirstOnly(fromBlock, toBlock) ==
  LET allowListLogs == getLogs(AllowListLogs, fromBlock, toBlock)
  IN MapAllowListLogs(IF allowListLogs = <<>> THEN <<>> ELSE <<Head(allowListLogs)>>)

\* getL1TokenAllowListEvents: the transaction hashes it warns about.
AllowListWarnings(fromBlock, toBlock) ==
  LET skipped ==
        SelectSeq(getLogs(AllowListLogs, fromBlock, toBlock),
                  LAMBDA log : \/ log.eventName # "StatusUpdated"
                               \/ ~Has(log.args, "addr")
                               \/ ~Has(log.args, "status")
                               \/ log.args.status = 0)
  IN [k \in 1..Len(skipped) |-> skipped[k].transactionHash]

\* L1Collector.getL1TokenAllowListEvents
getL1TokenAllowListEvents(fromBlock, toBlock) ==
  MapAllowListLogs(getLogs(AllowListLogs, fromBlock, toBlock))

\* scanForRegisterEvents (utils/portal-events.ts)
scanForRegisterEvents(fromBlock, toBlock) == getLogs(rollup, fromBlock, toBlock)

RECURSIVE MapL2Events(_)
MapL2Events(events) ==
  IF events = <<>> THEN <<>>
  ELSE
    LET event == Head(events) IN
    << [l1Address |-> Some(normalizeL1Address(event.ethToken)),
        l2Address |-> Some(normalizeL2Address(event.aztecToken)),
        l2RegistrationBlock |-> Some(event.blockNumber),
        l2RegistrationTxIndex |-> Some(event.txIndex),
        l2RegistrationLogIndex |-> Some(event.logIndex)] >>
    \o MapL2Events(Tail(events))

\* L2Collector.getL2TokenRegistrations
getL2TokenRegistrations(fromBlock, toBlock) ==
  MapL2Events(scanForRegisterEvents(fromBlock, toBlock))

\* A scan raises when an address of the window fails normalisation.
ScanThrows(records) ==
  \E k \in 1..Len(records) :
    \/ records[k].l1Address = Some("throw")
    \/ Has(records[k], "l2Address") /\ records[k].l2Address = Some("throw")

\* ------------------------------------------------------- persistence layer
\* Columns of the tokens table other than updated_at.
Columns == {"symbol", "name", "decimals", "l1Address", "l2Address",
            "l1RegistrationBlock", "l1RegistrationTx",
            "l2RegistrationBlock", "l2RegistrationTxIndex", "l2RegistrationLogIndex",
            "l1AllowListStatus", "l1AllowListProposalTx", "l1AllowListResolutionTx"}

\* The part of a JavaScript object that is not undefined, limited to keys.
Pick(o, keys) == [k \in (DOMAIN o) \cap keys |-> o[k]]

\* INSERT: a column the values do not give takes its default, NULL.
InsertRow(values, now) ==
  [c \in Columns \cup {"updatedAt"} |->
     IF c = "updatedAt" THEN Some(now)
     ELSE IF Has(values, c) THEN values[c] ELSE Null]

\* DO UPDATE SET: a key of the set clause that is undefined is left out of it.
UpdateRow(row, set, now) ==
  [c \in Columns \cup {"updatedAt"} |->
     IF c = "updatedAt" THEN Some(now)
     ELSE IF Has(set, c) THEN set[c] ELSE row[c]]

\* Faulty variant: a plain INSERT without the conflict clause on a table without
\* the unique key.
UpsertAlwaysInsert(table, values, set, now) == table \cup {InsertRow(values, now)}

\* db.insert(tokens).values(values).onConflictDoUpdate({target: l1Address, set})
\* where the set clause may refer to the columns of the conflicting row: set[row].
Upsert(table, values, set, now) ==
  IF \E row \in table : row.l1Address = values.l1Address
  THEN { IF row.l1Address = values.l1Address
         THEN UpdateRow(row, set[row], now) ELSE row : row \in table }
  ELSE table \cup {InsertRow(values, now)}

\* JavaScript falsiness of registration.l1Address / event.l1Address
NoL1Address(o) ==
  ~Has(o, "l1Address") \/ o.l1Address = Null \/ o.l1Address = Some("")

\* One iteration of the loop of storeL1TokenRegistrations.
L1RegistrationSet(registration, row) == Pick(registration, Columns)

upsertL1TokenRegistration(table, registration, now) ==
  LET set == [row \in table |-> L1RegistrationSet(registration, row)]
  IN Upsert(table, Pick(registration, Columns), set, now)

\* Faulty variant: the transaction columns are overwritten with what the event
\* has, NULL included.
AllowListSetOverwrite(event, row) ==
  Pick(event, {"l1AllowListStatus"})
  @@ [l1AllowListProposalTx |->
        IF Has(event, "l1AllowListProposalTx") THEN event.l1AllowListProposalTx ELSE Null,
      l1AllowListResolutionTx |->
        IF Has(event, "l1AllowListResolutionTx") THEN event.l1AllowListResolutionTx
        ELSE Null]

\* One iteration of the loop of storeL1TokenAllowListEvents.
AllowListSet(event, row) ==
  Pick(event, {"l1AllowListStatus"})
  @@ [l1AllowListProposalTx |->
        IF Has(event, "l1AllowListProposalTx") /\ event.l1AllowListProposalTx # Null
        THEN event.l1AllowListProposalTx ELSE row.l1AllowListProposalTx,
      l1AllowListResolutionTx |->
        IF Has(event, "l1AllowListResolutionTx") /\ event.l1AllowListResolutionTx # Null
        THEN event.l1AllowListResolutionTx ELSE row.l1AllowListResolutionTx]

upsertL1TokenAllowListEvent(table, event, now) ==
  IF NoL1Address(event) THEN table
  ELSE
    LET set == [row \in table |-> AllowListSet(event, row)]
    IN Upsert(table,
              Pick(event, {"l1Address", "l1AllowListStatus",
                           "l1AllowListProposalTx", "l1AllowListResolutionTx"}),
              set, now)

\* One iteration of the loop of storeL2TokenRegistrations.
\* Faulty variant: the set clause repeats the inserted values, NULLs included.
L2RegistrationSetLikeValues(registration, row) ==
  Pick(registration, {"l2Address", "l2RegistrationBlock",
                      "l2RegistrationTxIndex", "l2RegistrationLogIndex"})
  @@ [symbol |-> Null, name |-> Null, decimals |-> Null,
      l1RegistrationBlock |-> Null, l1RegistrationTx |-> Null]

L2RegistrationSet(registration, row) ==
  Pick(registration, {"l2Address", "l2RegistrationBlock",
                      "l2RegistrationTxIndex", "l2RegistrationLogIndex"})

upsertL2TokenRegistration(table, registration, now) ==
  IF NoL1Address(registration) THEN table
  ELSE
    LET set == [row \in table |-> L2RegistrationSet(registration, row)]
    IN Upsert(table,
              Pick(registration, {"l1Address", "l2Address", "l2RegistrationBlock",
                                  "l2RegistrationTxIndex", "l2RegistrationLogIndex"}),
              set, now)

\* The three store functions on a whole list: one upsert per element, in order.
RECURSIVE storeL1TokenRegistrations(_, _, _)
storeL1TokenRegistrations(table, registrations, now) ==
  IF registrations = <<>> THEN table
  ELSE storeL1TokenRegistrations(
         upsertL1TokenRegistration(table, Head(registrations), now),
         Tail(registrations), now)

RECURSIVE storeL1TokenAllowListEvents(_, _, _)
storeL1TokenAllowListEvents(table, allowListEvents, now) ==
  IF allowListEvents = <<>> THEN table
  ELSE storeL1TokenAllowListEvents(
         upsertL1TokenAllowListEvent(table, Head(allowListEvents), now),
         Tail(allowListEvents), now)

RECURSIVE storeL2TokenRegistrations(_, _, _)
storeL2TokenRegistrations(table, registrations, now) ==
  IF registrations = <<>> THEN table
  ELSE storeL2TokenRegistrations(
         upsertL2TokenRegistration(table, Head(registrations), now),
         Tail(registrations), now)

\* A table without its updated_at column.
Content(table) == { [c \in Columns |-> row[c]] : row \in table }

\* The row of an address, as a set of at most one row.
RowsOf(table, address) == { row \in table : row.l1Address = address }

\* ------------------------------------------------------ CollectorService
\* BlockProgressService.getLastScannedBlock: 0 when the chain has no row.
getLastScannedBlock(chain) == progress[chain]

\* Faulty variant: the store keeps the greater of the stored and the given value.
updateLastScannedBlockIfGreater(chain, block) ==
  [progress EXCEPT ![chain] = IF block > @ THEN block ELSE @]

\* BlockProgressService.updateLastScannedBlock: writes the value it is given.
updateLastScannedBlock(chain, block) == [progress EXCEPT ![chain] = block]

\* Faulty variant: the window starts at the cursor instead of the block after it.
FromBlockAtCursor(lastScannedBlock, startBlock) ==
  IF lastScannedBlock = 0 /\ startBlock # 0 THEN startBlock ELSE lastScannedBlock

\* Faulty variant: a set start block is used whatever the cursor.
FromBlockAlwaysStart(lastScannedBlock, startBlock) ==
  IF startBlock # 0 THEN startBlock ELSE lastScannedBlock + 1

\* fromL1Block / fromL2Block of poll()
FromBlock(lastScannedBlock, startBlock) ==
  IF lastScannedBlock = 0 /\ startBlock # 0 THEN startBlock ELSE lastScannedBlock + 1

\* Faulty variant: the window is one block too long.
ToBlockOneMore(fromBlock, chunkSize, currentBlock) ==
  Min(fromBlock + chunkSize, currentBlock)

\* Faulty variant: the window ends one block early.
ToBlockOneLess(fromBlock, chunkSize, currentBlock) ==
  Min(fromBlock + chunkSize - 2, currentBlock)

\* toL1Block / toL2Block of poll()
ToBlock(fromBlock, chunkSize, currentBlock) ==
  Min(fromBlock + chunkSize - 1, currentBlock)

\* Faulty variant: the comparison is the wrong way round.
CaughtUpFlipped(fromBlock, currentBlock) == fromBlock < currentBlock

\* Faulty variant: a chain one block past its head is not yet taken as caught up.
CaughtUpOneLate(fromBlock, currentBlock) == fromBlock > currentBlock + 1

\* l1CaughtUp / l2CaughtUp before the scan
CaughtUp(fromBlock, currentBlock) == fromBlock > currentBlock

\* Faulty variant: the comparison is the wrong way round.
CaughtUpAfterFlipped(toBlock, currentBlock) == toBlock <= currentBlock

\* l1CaughtUp / l2CaughtUp after the scan
CaughtUpAfter(toBlock, currentBlock) == toBlock >= currentBlock

\* Faulty variant: a list of one registration is not stored.
ShouldStoreSeveral(registrations) == Len(registrations) > 1

\* if (l1Registrations.length > 0) / if (l2Registrations.length > 0)
ShouldStore(registrations) == Len(registrations) > 0

\* The scanner poll() calls for a chain.
Scanner(chain, fromBlock, toBlock) ==
  IF chain = "L1" THEN getL1TokenRegistrations(fromBlock, toBlock)
  ELSE getL2TokenRegistrations(fromBlock, toBlock)

\* One upsert of the store function poll() calls for a chain.
UpsertFor(chain, table, registration, now) ==
  IF chain = "L1" THEN upsertL1TokenRegistration(table, registration, now)
  ELSE upsertL2TokenRegistration(table, registration, now)

Range(seq) == { seq[k] : k \in 1..Len(seq) }

\* The records of a list for which the store function of the chain issues an upsert.
Issued(chain, records) ==
  { r \in Range(records) : chain = "L1" \/ ~NoL1Address(r) }

NoLocals ==
  [lastScanned |-> [c \in Chains |-> 0], from |-> [c \in Chains |-> 0],
   to |-> [c \in Chains |-> 0], current |-> [c \in Chains |-> 0],
   caughtUp |-> [c \in Chains |-> FALSE], registrations |-> <<>>,
   scanned |-> {}]

NoWindows == [blocks |-> {}, overlap |-> FALSE, any |-> FALSE]
NoPoll ==
  [returnedTrue |-> FALSE, from |-> [c \in Chains |-> 0],
   to |-> [c \in Chains |-> 0], current |-> [c \in Chains |-> 0]]

\* The state after construction with the given configuration and instances.
InitWith(cfg, started) ==
  /\ config = cfg
  /\ live = started
  /\ progress = [c \in Chains |-> 0]
  /\ store = {}
  /\ clock = 0
  /\ pc = [i \in Instances |-> "idle"]
  /\ loc = [i \in Instances |-> NoLocals]
  /\ result = [i \in Instances |-> "none"]
  /\ seen = [i \in Instances |-> NoPoll]
  /\ applied = {}
  /\ windows = [c \in Chains |-> NoWindows]
  /\ failed = [i \in Instances |-> {}]

\* The configurations: a start block that is unset (0) or set, any chunk size.
Configs ==
  [Chains -> [startBlock : {0, MaxStart}, chunkSize : 0..MaxChunk]]

\* The environment variables main() and what it calls read.
EnvVars ==
  {"NETWORK", "L1_RPC_URL", "L1_START_BLOCK", "L1_CHUNK_SIZE", "L2_NODE_URL",
   "L2_START_BLOCK", "L2_CHUNK_SIZE", "L1_PORTAL_ADDRESS", "L2_PORTAL_ADDRESS",
   "DATABASE_URL", "FORCE_L1_START_BLOCK", "FORCE_L2_START_BLOCK"}

\* An environment that sets everything but the forced start blocks.
FullEnv ==
  [v \in EnvVars |->
     CASE v = "NETWORK" -> "sepolia"
       [] v \in {"L1_START_BLOCK", "L2_START_BLOCK"} -> "0"
       [] v \in {"L1_CHUNK_SIZE", "L2_CHUNK_SIZE"} -> "2"
       [] v \in {"FORCE_L1_START_BLOCK", "FORCE_L2_START_BLOCK"} -> ""
       [] OTHER -> "set"]

\* db.ts: `let db = null`, no handle made, no destroyDatabase() under way.
NoHandle ==
  [handle |-> 0, made |-> 0, ended |-> {}, ends |-> <<>>, closing |-> {},
   exit |-> Null, log |-> <<>>]

\* The api client before getAllTokens() is called.
NoCall ==
  [at |-> "idle", limit |-> 0, cursor |-> 0, hasMore |-> TRUE, fetched |-> <<>>,
   pages |-> <<>>, tokens |-> <<>>, returned |-> Null]

\* The api service before a request.
NoRequest ==
  [handled |-> FALSE, query |-> [limit |-> Null, cursor |-> Null], limit |-> 0,
   cursor |-> 0, items |-> <<>>, status |-> 0, response |-> Null]

\* The process with the given environment, main() being at the given place, and
\* an L2 node that serves the given events.
DriverOn(environment, at, events) ==
  /\ env = environment
  /\ main = at
  /\ timer = [i \in Instances |-> 0]
  /\ db = NoHandle
  /\ client = NoCall
  /\ served = NoRequest
  /\ rollup = events

\* The same on the L2 chain whose addresses are all well-formed.
Driver(environment, at) == DriverOn(environment, at, L2Events)

\* Number(s) for the decimal strings that occur.
Number(s) ==
  CASE s = "" -> 0
    [] s = "0" -> 0
    [] s = "1" -> 1
    [] s = "2" -> 2
    [] s = "3" -> 3

\* The start block and chunk size getNetworkConfig() returns and main() hands to
\* the constructor of the service, which keeps them.
ConfigOf(environment) ==
  [c \in Chains |->
     [startBlock |-> Number(environment[c \o "_START_BLOCK"]),
      chunkSize |-> Number(environment[c \o "_CHUNK_SIZE"])]]

\* poll() called by any caller on a constructed service.
Init == \E cfg \in Configs : InitWith(cfg, {1}) /\ Driver(FullEnv, "start")

\* poll() returns value and its locals are gone.
Return(i, value, locals) ==
  /\ pc' = [pc EXCEPT ![i] = "idle"]
  /\ result' = [result EXCEPT ![i] = IF value THEN "true" ELSE "false"]
  /\ loc' = [loc EXCEPT ![i] = NoLocals]
  /\ seen' = [seen EXCEPT ![i] =
                IF value
                THEN [returnedTrue |-> TRUE, from |-> locals.from, to |-> locals.to,
                      current |-> locals.current]
                ELSE NoPoll]
  /\ failed' = [failed EXCEPT ![i] = {}]

\* Faulty variant: one caught-up chain is enough.
EitherCaughtUp(l1CaughtUp, l2CaughtUp) == l1CaughtUp \/ l2CaughtUp

\* return l1CaughtUp && l2CaughtUp
BothCaughtUp(l1CaughtUp, l2CaughtUp) == l1CaughtUp /\ l2CaughtUp

\* Where poll() goes once the L1 section is over.
AfterL1(i, locals) ==
  IF ~locals.caughtUp["L2"]
  THEN /\ pc' = [pc EXCEPT ![i] = "scanL2"]
       /\ loc' = [loc EXCEPT ![i] = locals]
       /\ UNCHANGED <<result, seen, failed>>
  ELSE Return(i, BothCaughtUp(locals.caughtUp["L1"], locals.caughtUp["L2"]), locals)

\* poll(): await Promise.all([getLastScannedBlock("L1"), getLastScannedBlock("L2")])
ReadProgress(i) ==
  /\ pc[i] = "idle"
  /\ LET lastScanned == [c \in Chains |-> getLastScannedBlock(c)]
         from == [c \in Chains |-> FromBlock(lastScanned[c], config[c].startBlock)]
     IN loc' = [loc EXCEPT ![i] =
                  [NoLocals EXCEPT !.lastScanned = lastScanned, !.from = from]]
  /\ pc' = [pc EXCEPT ![i] = "heads"]
  /\ UNCHANGED <<config, progress, store, clock, result, seen, applied, windows,
                 failed, live>>

\* poll(): await Promise.all([l1Collector.getBlockNumber(), l2Collector.getBlockNumber()])
\* and the window computation up to the first scan.
\* The two heads being one of the given pairs.
GetHeadsAmong(i, heads) ==
  /\ pc[i] = "heads"
  /\ \E current \in heads :
       LET from == loc[i].from
           to == [c \in Chains |-> ToBlock(from[c], config[c].chunkSize, current[c])]
           caughtUp == [c \in Chains |-> CaughtUp(from[c], current[c])]
           locals == [loc[i] EXCEPT !.current = current, !.to = to,
                                    !.caughtUp = caughtUp]
       IN IF caughtUp["L1"] /\ caughtUp["L2"] THEN Return(i, TRUE, locals)
          ELSE IF ~caughtUp["L1"]
          THEN /\ pc' = [pc EXCEPT ![i] = "scanL1"]
               /\ loc' = [loc EXCEPT ![i] = locals]
               /\ UNCHANGED <<result, seen, failed>>
          ELSE AfterL1(i, locals)
  /\ UNCHANGED <<config, progress, store, clock, applied, windows, live>>

\* The heads can be any blocks of the chains.
GetHeads(i) == GetHeadsAmong(i, [Chains -> 0..MaxBlock])

\* Faulty variant: the cursor is written as soon as the scan resolves.
ScanThenAdvance(i, chain) ==
  LET registrations == Scanner(chain, loc[i].from[chain], loc[i].to[chain]) IN
  /\ ~ScanThrows(registrations)
  /\ loc' = [loc EXCEPT ![i].registrations = registrations,
                       ![i].scanned = @ \cup {chain}]
  /\ pc' = [pc EXCEPT ![i] =
              (IF ShouldStore(registrations) THEN "store" ELSE "set") \o chain]
  /\ progress' = updateLastScannedBlock(chain, loc[i].to[chain])
  /\ UNCHANGED <<config, store, clock, result, seen, applied, windows, failed, live>>

\* await collector.getL?TokenRegistrations(from, to), which resolves
Scan(i, chain) ==
  LET registrations == Scanner(chain, loc[i].from[chain], loc[i].to[chain]) IN
  /\ ~ScanThrows(registrations)
  /\ loc' = [loc EXCEPT ![i].registrations = registrations,
                       ![i].scanned = @ \cup {chain}]
  /\ pc' = [pc EXCEPT ![i] =
              (IF ShouldStore(registrations) THEN "store" ELSE "set") \o chain]
  /\ UNCHANGED <<config, progress, store, clock, result, seen, applied, windows,
                 failed, live>>

\* await db.insert(...).onConflictDoUpdate(...) for the next registration
Store(i, chain) ==
  LET registration == Head(loc[i].registrations)
      rest == Tail(loc[i].registrations)
  IN
  /\ store' = UpsertFor(chain, store, registration, clock)
  /\ applied' = applied \cup Issued(chain, <<registration>>)
  /\ loc' = [loc EXCEPT ![i].registrations = rest]
  /\ pc' = [pc EXCEPT ![i] = (IF rest = <<>> THEN "set" ELSE "store") \o chain]
  /\ UNCHANGED <<config, progress, clock, result, seen, windows, failed, live>>

\* The window whose cursor is written joins the history.
Record(w, fromBlock, toBlock) ==
  [blocks |-> w.blocks \cup (fromBlock..toBlock),
   overlap |-> w.overlap \/ (w.blocks \cap (fromBlock..toBlock) # {}),
   any |-> TRUE]

\* await blockProgress.updateLastScannedBlock(chain, to) and the flag after it
Advance(i, chain) ==
  /\ progress' = updateLastScannedBlock(chain, loc[i].to[chain])
  /\ windows' = [windows EXCEPT ![chain] =
                   Record(@, loc[i].from[chain], loc[i].to[chain])]
  /\ UNCHANGED <<config, store, clock, applied, live>>

ScanL1(i) == pc[i] = "scanL1" /\ Scan(i, "L1")

StoreL1(i) == pc[i] = "storeL1" /\ Store(i, "L1")

\* Faulty variant: poll() goes on to L2 without writing the L1 cursor.
SetL1WithoutWrite(i) ==
  /\ pc[i] = "setL1"
  /\ UNCHANGED <<config, progress, store, clock, applied, windows, live>>
  /\ AfterL1(i, [loc[i] EXCEPT !.caughtUp["L1"] =
                   CaughtUpAfter(loc[i].to["L1"], loc[i].current["L1"])])

SetL1(i) ==
  /\ pc[i] = "setL1"
  /\ Advance(i, "L1")
  /\ AfterL1(i, [loc[i] EXCEPT !.caughtUp["L1"] =
                   CaughtUpAfter(loc[i].to["L1"], loc[i].current["L1"])])

ScanL2(i) == pc[i] = "scanL2" /\ Scan(i, "L2")

StoreL2(i) == pc[i] = "storeL2" /\ Store(i, "L2")

SetL2(i) ==
  /\ pc[i] = "setL2"
  /\ Advance(i, "L2")
  /\ LET locals == [loc[i] EXCEPT !.caughtUp["L2"] =
                      CaughtUpAfter(loc[i].to["L2"], loc[i].current["L2"])]
     IN Return(i, BothCaughtUp(locals.caughtUp["L1"], locals.caughtUp["L2"]), locals)

\* The chains poll() is working on when it is suspended at an await.
Working(at) ==
  CASE at = "heads" -> Chains
    [] at \in {"scanL1", "storeL1", "setL1"} -> {"L1"}
    [] at \in {"scanL2", "storeL2", "setL2"} -> {"L2"}
    [] OTHER -> {}

\* The pending await rejects (RPC, metadata read, datastore) or the process dies:
\* poll() raises and nothing of the pending call is written.
Fail(i) ==
  /\ pc[i] # "idle"
  /\ pc' = [pc EXCEPT ![i] = "idle"]
  /\ result' = [result EXCEPT ![i] = "raised"]
  /\ failed' = [failed EXCEPT ![i] = Working(pc[i])]
  /\ loc' = [loc EXCEPT ![i] =
                [NoLocals EXCEPT !.lastScanned = loc[i].lastScanned, !.from = loc[i].from]]
  /\ seen' = [seen EXCEPT ![i] = NoPoll]
  /\ UNCHANGED <<config, progress, store, clock, applied, windows, live>>

\* Time passes.
Tick ==
  /\ clock < MaxClock
  /\ clock' = clock + 1
  /\ UNCHANGED <<config, progress, store, pc, loc, result, seen, applied, windows,
                 failed, live>>

Next ==
  \/ \E i \in live : ReadProgress(i) /\ UNCHANGED driver
  \/ \E i \in live : GetHeads(i) /\ UNCHANGED driver
  \/ \E i \in live : ScanL1(i) /\ UNCHANGED driver
  \/ \E i \in live : StoreL1(i) /\ UNCHANGED driver
  \/ \E i \in live : SetL1(i) /\ UNCHANGED driver
  \/ \E i \in live : ScanL2(i) /\ UNCHANGED driver
  \/ \E i \in live : StoreL2(i) /\ UNCHANGED driver
  \/ \E i \in live : SetL2(i) /\ UNCHANGED driver
  \/ \E i \in live : Fail(i) /\ UNCHANGED driver

\* One collector instance polling, with any await able to reject. The clock stands
\* still here: poll() reads no updated_at, and StoreSpec below lets it run.
Spec == Init /\ [][Next]_vars

\* ------------------------------------------ two uncoordinated collectors
\* Both chains have stopped at their last block.
StillHeads == [c \in Chains |-> MaxBlock]

TwoInit ==
  /\ InitWith([c \in Chains |-> [startBlock |-> 0, chunkSize |-> 1]], Instances)
  /\ Driver(FullEnv, "start")

TwoNext ==
  \/ \E i \in live : ReadProgress(i) /\ UNCHANGED driver
  \/ \E i \in live : GetHeadsAmong(i, {StillHeads}) /\ UNCHANGED driver
  \/ \E i \in live : ScanL1(i) /\ UNCHANGED driver
  \/ \E i \in live : StoreL1(i) /\ UNCHANGED driver
  \/ \E i \in live : SetL1(i) /\ UNCHANGED driver
  \/ \E i \in live : ScanL2(i) /\ UNCHANGED driver
  \/ \E i \in live : StoreL2(i) /\ UNCHANGED driver
  \/ \E i \in live : SetL2(i) /\ UNCHANGED driver

\* Two collector processes polling the same datastore, their steps interleaved in
\* any way, on chains that no longer grow and with awaits that resolve.
TwoSpec == TwoInit /\ [][TwoNext]_vars

\* ------------------------------------------------------ the loop of start()
\* Faulty variant: the loop retries at once after an error.
SleepsAfterTrueOnly(outcome) == outcome = "true"

\* start(): the outcomes of poll() after which the loop awaits setTimeout.
SleepsAfter(outcome) == outcome \in {"true", "raised"}

\* Faulty variant: the delay after an error is doubled.
DelayDoubledOnError(outcome) ==
  IF outcome = "raised" THEN 2 * PollingInterval ELSE PollingInterval

\* start(): the delay handed to setTimeout.
Delay(outcome) == PollingInterval

\* start(): the step of poll() the loop awaits has been taken; when it settles
\* poll(), the loop arms its timer or goes round at once.
InLoop(i) ==
  /\ main = "start"
  /\ timer' = [timer EXCEPT ![i] =
                 IF pc'[i] = "idle" /\ SleepsAfter(result'[i])
                 THEN Delay(result'[i]) ELSE 0]
  /\ UNCHANGED <<env, main, db, client, served, rollup>>

\* start(): await this.poll() once no timer is pending.
CallPoll(i) == timer[i] = 0 /\ ReadProgress(i) /\ InLoop(i)

\* A tick of the pending setTimeout.
Elapse(i) ==
  /\ main = "start"
  /\ timer[i] > 0
  /\ timer' = [timer EXCEPT ![i] = @ - 1]
  /\ UNCHANGED <<config, progress, store, clock, pc, loc, result, seen, applied,
                 windows, failed, live, env, main, db, client, served, rollup>>

LoopNext ==
  \/ \E i \in live : CallPoll(i)
  \/ \E i \in live : GetHeads(i) /\ InLoop(i)
  \/ \E i \in live : ScanL1(i) /\ InLoop(i)
  \/ \E i \in live : StoreL1(i) /\ InLoop(i)
  \/ \E i \in live : SetL1(i) /\ InLoop(i)
  \/ \E i \in live : ScanL2(i) /\ InLoop(i)
  \/ \E i \in live : StoreL2(i) /\ InLoop(i)
  \/ \E i \in live : SetL2(i) /\ InLoop(i)
  \/ \E i \in live : Fail(i) /\ InLoop(i)
  \/ \E i \in live : Elapse(i)

LoopInit == InitWith(ConfigOf(FullEnv), {1}) /\ Driver(FullEnv, "start")

\* One service running start(): every pending await settles and the timer fires.
LoopSpec == LoopInit /\ [][LoopNext]_vars /\ WF_vars(LoopNext)

\* --------------------------------------------------------------- main()
\* Faulty variant: the chunk sizes are not checked.
RequiredButChunkSizes(environment) ==
  {"NETWORK", "L1_RPC_URL", "L1_START_BLOCK", "L2_NODE_URL", "L2_START_BLOCK"}
  \cup (IF environment["NETWORK"] # "sandbox"
        THEN {"L1_PORTAL_ADDRESS", "L2_PORTAL_ADDRESS"} ELSE {})

\* getNetworkConfig(): the variables whose absence makes it throw.
Required(environment) ==
  {"NETWORK", "L1_RPC_URL", "L1_START_BLOCK", "L1_CHUNK_SIZE", "L2_NODE_URL",
   "L2_START_BLOCK", "L2_CHUNK_SIZE"}
  \cup (IF environment["NETWORK"] # "sandbox"
        THEN {"L1_PORTAL_ADDRESS", "L2_PORTAL_ADDRESS"} ELSE {})

getNetworkConfigThrows(environment) ==
  \E v \in Required(environment) : environment[v] = ""

\* getDatabase() on a process that holds no handle yet.
getDatabaseThrows(environment) == environment["DATABASE_URL"] = ""

\* new BlockProgressService(), a field initialiser of the service
\* (services/block-progress.ts): it obtains the datastore handle.
BlockProgressServiceThrows(environment) == getDatabaseThrows(environment)

\* The configuration of a service that is not constructed yet.
NoConfig == [c \in Chains |-> [startBlock |-> 0, chunkSize |-> 0]]

\* main() up to service.start(): an error thrown here is an unhandled rejection
\* of main(), on which the process ends with exit code 1.
Boot ==
  /\ main = "boot"
  /\ IF getNetworkConfigThrows(env) \/ BlockProgressServiceThrows(env)
     THEN /\ main' = "exit1"
          /\ UNCHANGED <<config, live>>
     ELSE /\ main' = "start"
          /\ config' = ConfigOf(env)
          /\ live' = {1}
  /\ UNCHANGED <<progress, store, clock, pc, loc, result, seen, applied, windows,
                 failed, env, timer, db, client, served, rollup>>

\* The environment e without the variables of the set unset.
Without(e, unset) == [v \in EnvVars |-> IF v \in unset THEN "" ELSE e[v]]

\* An environment of the given network; the one of sepolia also sets the forced
\* start blocks.
BaseEnv(network) ==
  IF network = "sandbox" THEN [FullEnv EXCEPT !["NETWORK"] = network]
  ELSE [FullEnv EXCEPT !["NETWORK"] = network,
                       !["FORCE_L1_START_BLOCK"] = "2",
                       !["FORCE_L2_START_BLOCK"] = "2"]

MainInit ==
  \E network \in {"sepolia", "sandbox"} : \E unset \in SUBSET EnvVars :
    /\ InitWith(NoConfig, {})
    /\ Driver(Without(BaseEnv(network), unset), "boot")

MainNext == Boot \/ LoopNext

\* The collector process from main() on, in any environment.
MainSpec == MainInit /\ [][MainNext]_vars

\* ------------------------------------------- the persistence layer alone
\* Any caller of db.ts: the three store functions applied, in any order, to the
\* lists the scanners return for the windows of the chain histories.
StoreInit ==
  /\ InitWith([c \in Chains |-> [startBlock |-> 0, chunkSize |-> MaxChunk]], {})
  /\ Driver(FullEnv, "start")

ApplyL1 ==
  \E a \in 1..MaxBlock : \E b \in a..MaxBlock :
    LET registrations == getL1TokenRegistrations(a, b) IN
    /\ registrations # <<>>
    /\ store' = storeL1TokenRegistrations(store, registrations, clock)
    /\ applied' = applied \cup Issued("L1", registrations)
    /\ UNCHANGED <<config, progress, clock, pc, loc, result, seen, windows, failed, live>>

ApplyL2 ==
  \E a \in 1..MaxBlock : \E b \in a..MaxBlock :
    LET registrations == getL2TokenRegistrations(a, b) IN
    /\ registrations # <<>>
    /\ store' = storeL2TokenRegistrations(store, registrations, clock)
    /\ applied' = applied \cup Issued("L2", registrations)
    /\ UNCHANGED <<config, progress, clock, pc, loc, result, seen, windows, failed, live>>

ApplyAllowList ==
  \E a \in 1..MaxBlock : \E b \in a..MaxBlock :
    LET allowListEvents == getL1TokenAllowListEvents(a, b) IN
    /\ allowListEvents # <<>>
    /\ store' = storeL1TokenAllowListEvents(store, allowListEvents, clock)
    /\ applied' = applied \cup Issued("AllowList", allowListEvents)
    /\ UNCHANGED <<config, progress, clock, pc, loc, result, seen, windows, failed, live>>

StoreNext ==
  \/ ApplyL1 /\ UNCHANGED driver
  \/ ApplyL2 /\ UNCHANGED driver
  \/ ApplyAllowList /\ UNCHANGED driver
  \/ Tick /\ UNCHANGED driver

StoreSpec == StoreInit /\ [][StoreNext]_vars

\* Every record the scanners can hand to the store functions.
L1Records == Range(getL1TokenRegistrations(1, MaxBlock))
L2Records == Range(getL2TokenRegistrations(1, MaxBlock))
AllowListRecords == Range(getL1TokenAllowListEvents(1, MaxBlock))
AllRecords == L1Records \cup L2Records \cup AllowListRecords

Kind(record) ==
  IF record \in L1Records THEN "L1"
  ELSE IF record \in L2Records THEN "L2" ELSE "AllowList"

\* The store function of the record's kind applied to the one record.
ApplyRecord(table, record, now) ==
  CASE Kind(record) = "L1" -> storeL1TokenRegistrations(table, <<record>>, now)
    [] Kind(record) = "L2" -> storeL2TokenRegistrations(table, <<record>>, now)
    [] OTHER -> storeL1TokenAllowListEvents(table, <<record>>, now)

\* ------------------------------------------------------------ properties
\* C4: merge commutativity. From every reachable table, applying two records of
\* the same settlement-chain address in either order gives the same rows, compared
\* on every column except updated_at.
C4_MergeCommutes ==
  \A r1 \in AllRecords : \A r2 \in AllRecords :
    r1.l1Address = r2.l1Address =>
      Content(ApplyRecord(ApplyRecord(store, r1, clock), r2, clock))
        = Content(ApplyRecord(ApplyRecord(store, r2, clock), r1, clock))

\* C5: re-application is a no-op. In every reachable table, applying again a record
\* that was applied earlier leaves every column except updated_at unchanged.
C5_ReapplyIsNoOp ==
  \A r \in applied : Content(ApplyRecord(store, r, clock)) = Content(store)

\* The columns the claim C6 names as left alone by each kind of record.
Untouched(kind) ==
  CASE kind = "L2" ->
         {"symbol", "name", "decimals", "l1RegistrationBlock", "l1RegistrationTx",
          "l1AllowListStatus", "l1AllowListProposalTx", "l1AllowListResolutionTx"}
    [] kind = "AllowList" ->
         {"symbol", "name", "decimals", "l1RegistrationBlock", "l1RegistrationTx",
          "l2Address", "l2RegistrationBlock", "l2RegistrationTxIndex",
          "l2RegistrationLogIndex"}
    [] kind = "L1" ->
         {"l2Address", "l2RegistrationTxIndex", "l2RegistrationLogIndex",
          "l1AllowListStatus", "l1AllowListProposalTx", "l1AllowListResolutionTx"}

\* C6: field-scoped update. Applying any record to a table that holds a row of its
\* address keeps one row for the address, leaves the columns its kind cannot supply
\* as they were, turns no known column into NULL and leaves every other row alone.
C6_FieldScopedUpdate ==
  \A r \in AllRecords : \A row \in store :
    row.l1Address = r.l1Address =>
      LET after == ApplyRecord(store, r, clock)
          rows == RowsOf(after, row.l1Address)
      IN /\ Cardinality(rows) = 1
         /\ \A row2 \in rows :
              /\ \A c \in Untouched(Kind(r)) : row2[c] = row[c]
              /\ \A c \in Columns : row[c] # Null => row2[c] # Null
         /\ after \ rows = store \ {row}

\* C6 witness: a row that took its symbol from an L1 registration, its rollup
\* address from an L2 registration and ACCEPTED from an allow-list event.
C6_Witness ==
  \E row \in store :
    /\ row.symbol = Some("TKA")
    /\ row.l2Address = Some("0xaz01")
    /\ row.l1AllowListStatus = Some("ACCEPTED")
    /\ row.l1AllowListProposalTx = Some("0xp1")
    /\ row.l1AllowListResolutionTx = Some("0xr1")

\* First block poll() scans for a chain on an empty block_progress table.
FirstBlock(chain) == FromBlock(0, config[chain].startBlock)

\* C1: persist before advance. In every state, also after an aborted poll(), each
\* record the chain's scanner returns for a block from the first scanned block up to
\* the stored cursor has been upserted and its address has a row.
C1_PersistBeforeAdvance ==
  \A chain \in Chains : \A b \in FirstBlock(chain)..progress[chain] :
    \A r \in Issued(chain, Scanner(chain, b, b)) :
      /\ r \in applied
      /\ RowsOf(store, r.l1Address) # {}

\* C1 witness: after a poll() that was aborted, both cursors are past blocks that
\* hold registrations, and those are in the table.
C1_Witness ==
  /\ result[1] = "raised"
  /\ progress["L1"] = 3
  /\ progress["L2"] = 2
  /\ Cardinality(store) = 2

\* C2: progress monotonicity. No step of the collector lowers a chain's cursor.
C2_CursorNonDecreasing ==
  [][\A chain \in Chains : progress'[chain] >= progress[chain]]_vars

\* C2 witness: a poll() returned true having observed an L1 head below the L1 cursor.
C2_Witness ==
  /\ seen[1].returnedTrue
  /\ seen[1].current["L1"] < progress["L1"]
  /\ seen[1].current["L2"] > 0
  /\ progress["L2"] = seen[1].current["L2"]

\* C3: a failed chunk is re-attempted from the same window. When poll() raises, the
\* cursor of each chain it was working on is the one it read at its start, and the
\* next poll() computes the same fromBlock for that chain.
C3_FailedChunkRetried ==
  [][\A i \in live :
       /\ (pc[i] # "idle" /\ pc'[i] = "idle" /\ result'[i] = "raised") =>
            \A chain \in Working(pc[i]) :
              /\ progress'[chain] = loc[i].lastScanned[chain]
              /\ chain \in failed'[i]
       /\ (pc[i] = "idle" /\ result[i] = "raised" /\ pc'[i] = "heads") =>
            \A chain \in failed[i] : loc'[i].from[chain] = loc[i].from[chain]
    ]_vars

\* C3 witness: poll() raised in its L1 section after persisting a record, and the
\* next poll() has computed its windows.
C3_Witness ==
  /\ pc[1] = "heads"
  /\ result[1] = "raised"
  /\ failed[1] = {"L1"}
  /\ store # {}
  /\ progress["L1"] = 0
  /\ loc[1].from["L1"] = 1

\* C7: window contiguity. The windows whose cursor was written cover exactly the
\* blocks from the first scanned block to the cursor, none of them twice, and once
\* a chain has been processed the next poll() starts its window at cursor + 1.
C7_WindowsContiguous ==
  \A chain \in Chains :
    /\ windows[chain].blocks = FirstBlock(chain)..progress[chain]
    /\ ~windows[chain].overlap
    /\ \A i \in live :
         (pc[i] = "heads" /\ windows[chain].any) =>
           loc[i].from[chain] = progress[chain] + 1

\* C7 witness: three L1 windows of one block each were completed and the next
\* poll() has computed its window.
C7_Witness ==
  /\ config["L1"].chunkSize = 1
  /\ windows["L1"].blocks = {1, 2, 3}
  /\ progress["L1"] = 3
  /\ pc[1] = "heads"
  /\ loc[1].from["L1"] = 4

\* The chunk bound on the windows w of one poll().
Bounded(w) ==
  \A chain \in Chains :
    /\ w.to[chain] - w.from[chain] + 1 <= config[chain].chunkSize
    /\ w.to[chain] <= w.current[chain]

\* C8: chunk bound. Every window poll() computes, scanned or not, has at most
\* chunkSize blocks and ends at or below the head observed with it.
C8_ChunkBound ==
  \A i \in live :
    /\ pc[i] \notin {"idle", "heads"} => Bounded(loc[i])
    /\ seen[i].returnedTrue => Bounded(seen[i])

\* C8 witness: an L1 window of exactly chunkSize blocks that ends below the head,
\* with an L2 window cut short by the head.
C8_Witness ==
  /\ pc[1] = "setL1"
  /\ loc[1].to["L1"] - loc[1].from["L1"] + 1 = 2
  /\ loc[1].to["L1"] < loc[1].current["L1"]
  /\ config["L2"].chunkSize = 2
  /\ loc[1].to["L2"] = loc[1].from["L2"]
  /\ loc[1].to["L2"] = loc[1].current["L2"]

\* The heads the step of instance i out of "heads" has observed.
Observed(i) == IF pc'[i] = "idle" THEN seen'[i].current ELSE loc'[i].current

\* The step in which instance i receives the two heads.
HeadsStep(i) == pc[i] = "heads" /\ pc'[i] # "heads" /\ result'[i] # "raised"

\* C9: catch-up short-circuit. When the heads arrive and fromBlock > headBlock for
\* both chains, poll() returns true at once: no scan, no upsert, no cursor write.
C9_CatchUpShortCircuit ==
  [][\A i \in live :
       (HeadsStep(i) /\ \A chain \in Chains : loc[i].from[chain] > Observed(i)[chain]) =>
         /\ pc'[i] = "idle"
         /\ result'[i] = "true"
         /\ store' = store
         /\ progress' = progress
         /\ applied' = applied
         /\ windows' = windows
    ]_vars

\* C9 witness: poll() returned true with both windows past their heads, on a
\* table and cursors that earlier polls filled.
C9_Witness ==
  /\ pc[1] = "idle"
  /\ result[1] = "true"
  /\ seen[1].returnedTrue
  /\ \A chain \in Chains : seen[1].from[chain] > seen[1].current[chain]
  /\ \A chain \in Chains : progress[chain] > 0
  /\ store # {}

\* C10: idempotence of poll(). After a poll() that returned true, a poll() that
\* observes the same two heads returns true and writes neither rows nor cursors.
C10_PollIdempotent ==
  [][\A i \in live :
       (HeadsStep(i) /\ seen[i].returnedTrue /\ Observed(i) = seen[i].current) =>
         /\ pc'[i] = "idle"
         /\ result'[i] = "true"
         /\ store' = store
         /\ progress' = progress
    ]_vars

\* C10 witness: poll() short-circuited on heads equal to both cursors, which a
\* scan up to those heads had written.
C10_Witness ==
  /\ pc[1] = "idle"
  /\ result[1] = "true"
  /\ seen[1].returnedTrue
  /\ \A chain \in Chains :
       /\ seen[1].current[chain] = progress[chain]
       /\ seen[1].from[chain] = progress[chain] + 1
  /\ progress["L1"] = 3
  /\ progress["L2"] = 2
  /\ Cardinality(store) = 2

\* The caught-up flag of a chain for the windows w of one poll() that scanned the
\* chains in scanned.
Flag(w, scanned, chain) ==
  IF chain \in scanned THEN w.to[chain] >= w.current[chain]
  ELSE w.from[chain] > w.current[chain]

\* C11: poll() returns the AND of the two caught-up flags, a chain's flag being
\* from > head when the chain was not scanned in the call and to >= head when it
\* was; and for cursor 999, chunk size 1000 and head 1500 the window is 1000..1500
\* and the flag after the scan is true.
C11_ReturnsAndOfFlags ==
  /\ FromBlock(999, 0) = 1000
  /\ ToBlock(FromBlock(999, 0), 1000, 1500) = 1500
  /\ ~CaughtUp(FromBlock(999, 0), 1500)
  /\ CaughtUpAfter(ToBlock(FromBlock(999, 0), 1000, 1500), 1500)
  /\ [][\A i \in live :
          (pc[i] # "idle" /\ pc'[i] = "idle" /\ result'[i] # "raised") =>
            LET w == IF pc[i] = "heads" THEN seen'[i] ELSE loc[i]
                scanned == IF pc[i] = "heads" THEN {} ELSE loc[i].scanned
            IN (result'[i] = "true") <=> \A chain \in Chains : Flag(w, scanned, chain)
       ]_vars

\* C11 witness: poll() returned true after scanning the L1 window from cursor + 1
\* up to the head and writing the head as the cursor, L2 being past its head
\* without a scan.
C11_Witness ==
  /\ pc[1] = "idle"
  /\ result[1] = "true"
  /\ seen[1].returnedTrue
  /\ seen[1].from["L1"] = 2
  /\ seen[1].to["L1"] = 3
  /\ seen[1].current["L1"] = 3
  /\ progress["L1"] = 3
  /\ seen[1].from["L2"] > seen[1].current["L2"]
  /\ progress["L2"] = 0

\* C12: the scheduling loop. start() calls poll() only when no timer is pending;
\* when poll() returns true or raises it arms the timer with pollingInterval, when
\* poll() returns false it arms none; a pending timer only runs down; poll() is
\* called again and again, and every poll() that raised is followed by another call.
C12_SchedulingLoop ==
  /\ [][\A i \in live :
          /\ (pc[i] = "idle" /\ pc'[i] # "idle") => timer[i] = 0
          /\ (pc[i] # "idle" /\ pc'[i] = "idle") =>
               timer'[i] = (IF result'[i] = "false" THEN 0 ELSE PollingInterval)
          /\ (pc[i] = "idle" /\ pc'[i] = "idle") => timer'[i] <= timer[i]
       ]_vars
  /\ []<>(pc[1] = "heads")
  /\ (pc[1] = "idle" /\ result[1] = "raised") ~> (pc[1] = "heads")

\* C12 witness: after a poll() that raised and the sleep that followed it, the loop
\* has called poll() again, on cursors that earlier calls wrote.
C12_Witness ==
  /\ pc[1] = "heads"
  /\ result[1] = "raised"
  /\ timer[1] = 0
  /\ progress["L1"] > 0
  /\ store # {}

\* The portal logs of a window whose transaction hash is among its inbox logs.
Matched(portalLogs, inboxLogs) ==
  SelectSeq(portalLogs, LAMBDA p :
    \E j \in 1..Len(inboxLogs) : inboxLogs[j].transactionHash = p.transactionHash)

\* The last inbox log of a window that carries the hash of the portal log p.
LastInboxLog(inboxLogs, p) ==
  LET j == CHOOSE j \in 1..Len(inboxLogs) :
             /\ inboxLogs[j].transactionHash = p.transactionHash
             /\ \A k \in (j + 1)..Len(inboxLogs) :
                  inboxLogs[k].transactionHash # p.transactionHash
  IN inboxLogs[j]

\* C13: correlation correctness. For every window, getL1TokenRegistrations returns
\* one record per Registered log whose hash is among the inbox logs of the window,
\* in log order, with the token's name, symbol and decimals, the lowercase address,
\* the block and hash of the log and the l2BlockNumber of the last inbox log of
\* that hash; it reads name, symbol and decimals once for each such log and for no
\* other, and warns once for each Registered log without a matching hash.
C13_CorrelationCorrect ==
  \A a \in 0..MaxBlock : \A b \in 0..MaxBlock :
    LET portalLogs == getLogs(PortalLogs, a, b)
        inboxLogs == getLogs(InboxLogs, a, b)
        matched == Matched(portalLogs, inboxLogs)
        registrations == getL1TokenRegistrations(a, b)
        reads == MetadataReads(portalLogs, inboxLogs)
        warnings == CorrelationWarnings(portalLogs, inboxLogs)
    IN /\ Len(registrations) = Len(matched)
       /\ \A k \in 1..Len(matched) :
            LET p == matched[k]
                token == p.args.token
            IN /\ registrations[k] =
                    [symbol |-> Some(readContract(token, "symbol")),
                     name |-> Some(readContract(token, "name")),
                     decimals |-> Some(readContract(token, "decimals")),
                     l1Address |-> Some(ToLowerCase(token)),
                     l1RegistrationBlock |-> Some(p.blockNumber),
                     l1RegistrationTx |-> Some(p.transactionHash),
                     l2RegistrationBlock |->
                       Some(LastInboxLog(inboxLogs, p).args.l2BlockNumber)]
               /\ SubSeq(reads, 3 * k - 2, 3 * k) =
                    << [address |-> token, functionName |-> "name"],
                       [address |-> token, functionName |-> "symbol"],
                       [address |-> token, functionName |-> "decimals"] >>
       /\ Len(reads) = 3 * Len(matched)
       /\ LET unmatched == SelectSeq(portalLogs, LAMBDA p : p \notin Range(matched))
          IN /\ Len(warnings) = Len(unmatched)
             /\ \A k \in 1..Len(unmatched) :
                  warnings[k] = unmatched[k].transactionHash
       /\ Len(warnings) + Len(registrations) = Len(portalLogs)
       /\ \A r \in applied :
            Has(r, "l1RegistrationTx") =>
              \E p \in Range(Matched(PortalLogs, InboxLogs)) :
                r.l1RegistrationTx = Some(p.transactionHash)

\* C13 witness: the record of the Registered log whose hash two inbox logs carry
\* has been stored with the l2BlockNumber of the second, and the address whose
\* other Registered log had no inbox log has that one row.
C13_Witness ==
  /\ \E r \in applied :
       /\ Has(r, "l1RegistrationTx")
       /\ r.l1RegistrationTx = Some("0xt3")
       /\ r.l2RegistrationBlock = Some(3)
  /\ \E row \in store :
       /\ row.l1Address = Some("0xb2")
       /\ row.l1RegistrationTx = Some("0xt3")
       /\ row.l1RegistrationBlock = Some(3)

\* The step in which instance i enters poll() and computes its two fromBlocks.
CallStep(i) == pc[i] = "idle" /\ pc'[i] = "heads"

Forced(chain) == env["FORCE_" \o chain \o "_START_BLOCK"]

\* C15: override start block. Whenever poll() is entered with a forced start block
\* set for a chain, it takes that block as the chain's fromBlock, whatever the
\* stored cursor is.
C15_ForcedStartBlockWins ==
  [][\A i \in live : \A chain \in Chains :
       (CallStep(i) /\ Forced(chain) # "") =>
         loc'[i].from[chain] = Number(Forced(chain))
    ]_vars

\* C16: backfill terminates. With a forced start block set for either chain, the
\* process leaves the loop when poll() returns true: it arms no timer and is no
\* longer running start().
C16_BackfillExits ==
  [][\A i \in live :
       ((\E chain \in Chains : Forced(chain) # "")
        /\ pc[i] # "idle" /\ pc'[i] = "idle" /\ result'[i] = "true") =>
         /\ timer'[i] = 0
         /\ main' # "start"
    ]_vars

\* A required configuration value is absent from the environment: the network,
\* an endpoint, a start block, a chunk size, the datastore connection string or,
\* on a network whose deployment is not looked up, a portal address.
ValueAbsent ==
  \/ \E v \in {"NETWORK", "L1_RPC_URL", "L2_NODE_URL", "L1_START_BLOCK",
                "L2_START_BLOCK", "L1_CHUNK_SIZE", "L2_CHUNK_SIZE", "DATABASE_URL"} :
       env[v] = ""
  \/ /\ env["NETWORK"] # "sandbox"
     /\ \E v \in {"L1_PORTAL_ADDRESS", "L2_PORTAL_ADDRESS"} : env[v] = ""

RECURSIVE SingleInstanceTables(_, _, _)
SingleInstanceTables(table, l1Registrations, l2Registrations) ==
  IF l1Registrations = <<>> /\ l2Registrations = <<>> THEN {Content(table)}
  ELSE (IF l1Registrations = <<>> THEN {}
        ELSE SingleInstanceTables(
               storeL1TokenRegistrations(table, <<Head(l1Registrations)>>, clock),
               Tail(l1Registrations), l2Registrations))
       \cup
       (IF l2Registrations = <<>> THEN {}
        ELSE SingleInstanceTables(
               storeL2TokenRegistrations(table, <<Head(l2Registrations)>>, clock),
               l1Registrations, Tail(l2Registrations)))

\* C17: duplicate scanning is harmless. With two instances polling the same
\* store, once the last poll() of each has returned true the rows, updated_at
\* aside, are rows a single instance leaves on the same chain history; and in
\* every state each record of a block up to a cursor has been upserted and has
\* its row.
C17_DuplicateScanningHarmless ==
  /\ (\A i \in live : pc[i] = "idle" /\ result[i] = "true") =>
       Content(store) \in
         SingleInstanceTables({}, getL1TokenRegistrations(1, MaxBlock),
                              getL2TokenRegistrations(1, MaxBlock))
  /\ \A chain \in Chains : \A b \in 1..progress[chain] :
       \A r \in Issued(chain, Scanner(chain, b, b)) :
         r \in applied /\ RowsOf(store, r.l1Address) # {}

\* C18: a single joined record per address. The table never holds two rows of one
\* settlement-chain address; a row is never deleted; and a row that a step creates
\* carries the address of a record applied in that step and NULL in every column
\* that only the other kinds of event supply.
C18_SingleRowPerAddress ==
  /\ [](\A row1 \in store : \A row2 \in store :
          row1.l1Address = row2.l1Address => row1 = row2)
  /\ [][/\ \A row \in store : RowsOf(store', row.l1Address) # {}
        /\ \A row2 \in store' :
             RowsOf(store, row2.l1Address) = {} =>
               /\ \E r \in applied' \ applied : r.l1Address = row2.l1Address
               /\ \A r \in applied' \ applied :
                    \A c \in Untouched(Kind(r)) : row2[c] = Null
       ]_vars

\* C18 witness: the row of 0xb2 was created by its L2 registration, took REJECTED
\* from an allow-list event and still has no L1 registration; 0xa1 has its own row.
C18_Witness ==
  /\ Cardinality(store) = 2
  /\ \E row \in store :
       /\ row.l1Address = Some("0xb2")
       /\ row.l2Address = Some("0xaz02")
       /\ row.l1AllowListStatus = Some("REJECTED")
       /\ row.symbol = Null
       /\ row.l1RegistrationTx = Null

\* C19: allow-list merge. Applying an ACCEPTED or REJECTED event with hash h to
\* any reachable table leaves one row for its address with that status and
\* resolution tx h, the proposal tx being what it was (NULL on a new row); a
\* PROPOSED event sets the status and the proposal tx and leaves the resolution
\* tx as it was.
C19_AllowListMerge ==
  \A event \in AllowListRecords :
    LET prior == RowsOf(store, event.l1Address)
        rows == RowsOf(storeL1TokenAllowListEvents(store, <<event>>, clock),
                       event.l1Address)
        resolution == event.l1AllowListStatus \in {Some("ACCEPTED"), Some("REJECTED")}
    IN /\ Cardinality(rows) = 1
       /\ resolution <=> Has(event, "l1AllowListResolutionTx")
       /\ ~resolution <=> Has(event, "l1AllowListProposalTx")
       /\ \A row2 \in rows :
            /\ row2.l1AllowListStatus = event.l1AllowListStatus
            /\ IF resolution
               THEN /\ row2.l1AllowListResolutionTx = event.l1AllowListResolutionTx
                    /\ \A row \in prior :
                         row2.l1AllowListProposalTx = row.l1AllowListProposalTx
                    /\ prior = {} => row2.l1AllowListProposalTx = Null
               ELSE /\ row2.l1AllowListProposalTx = event.l1AllowListProposalTx
                    /\ \A row \in prior :
                         row2.l1AllowListResolutionTx = row.l1AllowListResolutionTx
                    /\ prior = {} => row2.l1AllowListResolutionTx = Null

\* C19 witness: the row of 0xa1 took ACCEPTED with its resolution tx first and
\* PROPOSED with its proposal tx afterwards, and kept the resolution tx.
C19_Witness ==
  \E row \in store :
    /\ row.l1Address = Some("0xa1")
    /\ row.l1AllowListStatus = Some("PROPOSED")
    /\ row.l1AllowListProposalTx = Some("0xp1")
    /\ row.l1AllowListResolutionTx = Some("0xr1")

\* ------------------------------------------------------------ the api client
\* Most fetches of one getAllPages() that are followed.
MaxPages == 3
\* Most items of one page of a response.
MaxPageLen == 1
\* Highest nextCursor a response carries.
MaxCursor == 1

\* limit = 100, the default of getAllPages() and getAllTokens().
DefaultLimit == 100

\* The tokens a response can list.
Symbols == {"TOKEN1", "TOKEN2"}

RECURSIVE SeqsUpTo(_, _)
\* The sequences over the set of length at most n.
SeqsUpTo(set, n) ==
  IF n = 0 THEN {<<>>}
  ELSE LET shorter == SeqsUpTo(set, n - 1)
       IN shorter \cup {Append(q, x) : q \in {r \in shorter : Len(r) = n - 1}, x \in set}

\* TokensResponse: data and pagination, nextCursor being optional.
Responses ==
  {[data |-> d, pagination |-> g] :
     d \in SeqsUpTo(Symbols, MaxPageLen),
     g \in [hasMore : BOOLEAN] \cup [hasMore : BOOLEAN, nextCursor : 0..MaxCursor]}

\* Faulty variant: a response without nextCursor does not end the loop.
ContinuesOnHasMore(response) == response.pagination.hasMore

\* getAllPages(): hasMore after the response was handled.
ContinuesAfter(response) ==
  response.pagination.hasMore /\ Has(response.pagination, "nextCursor")

\* getAllPages(): cursor after the response was handled.
CursorAfter(cursor, response) ==
  IF response.pagination.hasMore /\ Has(response.pagination, "nextCursor")
  THEN response.pagination.nextCursor
  ELSE cursor

\* getAllTokens(limit) is called: getAllPages() starts with cursor 0.
CallGetAllTokens(limit) ==
  /\ client.at = "idle"
  /\ client' = [NoCall EXCEPT !.at = "fetching", !.limit = limit]
  /\ UNCHANGED <<config, progress, store, clock, pc, loc, result, seen, applied,
                 windows, failed, live, env, main, timer, db, served, rollup>>

\* One round of the while loop of getAllPages(): the fetcher resolves with the
\* response, each item is yielded and pushed by getAllTokens(), and the loop
\* goes on or the generator ends and getAllTokens() returns.
Fetch(response) ==
  /\ client.at = "fetching"
  /\ client.hasMore
  /\ Len(client.fetched) < MaxPages
  /\ LET tokens == client.tokens \o response.data
     IN client' =
          [client EXCEPT
             !.fetched = Append(@, [limit |-> client.limit, cursor |-> client.cursor]),
             !.pages = Append(@, response),
             !.tokens = tokens,
             !.hasMore = ContinuesAfter(response),
             !.cursor = CursorAfter(client.cursor, response),
             !.at = IF ContinuesAfter(response) THEN "fetching" ELSE "returned",
             !.returned = IF ContinuesAfter(response) THEN Null ELSE Some(tokens)]
  /\ UNCHANGED <<config, progress, store, clock, pc, loc, result, seen, applied,
                 windows, failed, live, env, main, timer, db, served, rollup>>

\* request(): the fetcher throws on a response that is not ok; the generator and
\* getAllTokens() reject.
FetchRaises ==
  /\ client.at = "fetching"
  /\ Len(client.fetched) < MaxPages
  /\ client' =
       [client EXCEPT
          !.fetched = Append(@, [limit |-> client.limit, cursor |-> client.cursor]),
          !.at = "raised"]
  /\ UNCHANGED <<config, progress, store, clock, pc, loc, result, seen, applied,
                 windows, failed, live, env, main, timer, db, served, rollup>>

ClientInit == InitWith(NoConfig, {}) /\ Driver(FullEnv, "start")

ClientNext ==
  \/ \E limit \in {1, DefaultLimit} : CallGetAllTokens(limit)
  \/ \E response \in Responses : Fetch(response)
  \/ FetchRaises

\* One getAllTokens() call of the api client against any server.
ClientSpec == ClientInit /\ [][ClientNext]_vars

RECURSIVE Flatten(_)
\* The items of the pages, page after page.
Flatten(pages) ==
  IF pages = <<>> THEN <<>> ELSE Head(pages).data \o Flatten(Tail(pages))

\* The response says there is nothing more, or does not say where to go on.
LastPage(response) ==
  ~response.pagination.hasMore \/ ~Has(response.pagination, "nextCursor")

\* C21: getAllPages fetches first with cursor 0 and then with the nextCursor of
\* the response before; the items yielded are those of the pages fetched, page
\* after page; it ends with the first response that has hasMore false or no
\* nextCursor; getAllTokens returns the items of all pages, concatenated.
C21_AutoPagination ==
  LET answered == Len(client.pages)
  IN /\ Len(client.fetched) \in
          {answered, IF client.at = "raised" THEN answered + 1 ELSE answered}
     /\ client.fetched # <<>> => client.fetched[1].cursor = 0
     /\ \A k \in 1..Len(client.fetched) :
          /\ client.fetched[k].limit = client.limit
          /\ k > 1 => /\ ~LastPage(client.pages[k - 1])
                      /\ client.fetched[k].cursor = client.pages[k - 1].pagination.nextCursor
     /\ client.tokens = Flatten(client.pages)
     /\ answered > 0 /\ LastPage(client.pages[answered]) => client.at = "returned"
     /\ client.at = "returned" =>
          /\ answered > 0 /\ LastPage(client.pages[answered])
          /\ client.returned = Some(Flatten(client.pages))
     /\ client.at # "returned" => client.returned = Null

\* Three pages, the last one saying hasMore without a nextCursor.
C21_Witness ==
  /\ client.at = "returned"
  /\ Len(client.pages) = 3
  /\ client.pages[3].pagination.hasMore
  /\ Len(client.tokens) >= 2
  /\ client.pages[1].pagination.nextCursor # client.pages[2].pagination.nextCursor

\* ------------------------------------------------------ the order of the chains
\* poll() of the instance raises out of its L2 scan or its L2 persistence.
L2Raises(i) ==
  /\ pc[i] \in {"scanL2", "storeL2"}
  /\ pc'[i] = "idle"
  /\ result'[i] = "raised"

\* Every record of the L1 window of the pending poll() has been upserted.
L1WindowPersisted(i) ==
  \A r \in Issued("L1", Scanner("L1", loc[i].from["L1"], loc[i].to["L1"])) :
    /\ r \in applied
    /\ RowsOf(store, r.l1Address) # {}

\* C22 as stated, for every poll(): the L2 scan begins with the L1 window persisted
\* and the L1 cursor at toL1, and when the L2 scan or the L2 persistence raises,
\* the L1 cursor is toL1 and stays, and the L2 cursor is the one read at the start.
C22_L1CursorIsToL1 ==
  [][\A i \in live :
       /\ (pc[i] # "scanL2" /\ pc'[i] = "scanL2") =>
            /\ L1WindowPersisted(i)'
            /\ progress'["L1"] = loc'[i].to["L1"]
       /\ L2Raises(i) =>
            /\ progress["L1"] = loc[i].to["L1"]
            /\ progress'["L1"] = progress["L1"]
            /\ progress'["L2"] = loc[i].lastScanned["L2"]
    ]_vars

\* C22, amended: the same for a poll() that found L1 not caught up and scanned
\* it; a poll() that found L1 caught up leaves the L1 cursor as it read it. In both
\* cases a raise out of the L2 scan or the L2 persistence leaves the L2 cursor as
\* it was read at the start.
C22_L1BeforeL2 ==
  [][\A i \in live :
       /\ (pc[i] # "scanL2" /\ pc'[i] = "scanL2") =>
            IF ~CaughtUp(loc'[i].from["L1"], loc'[i].current["L1"])
            THEN /\ "L1" \in loc'[i].scanned
                 /\ L1WindowPersisted(i)'
                 /\ progress'["L1"] = loc'[i].to["L1"]
            ELSE /\ "L1" \notin loc'[i].scanned
                 /\ progress'["L1"] = loc'[i].lastScanned["L1"]
       /\ L2Raises(i) =>
            /\ progress["L1"] =
                 IF "L1" \in loc[i].scanned THEN loc[i].to["L1"]
                 ELSE loc[i].lastScanned["L1"]
            /\ progress'["L1"] = progress["L1"]
            /\ progress'["L2"] = loc[i].lastScanned["L2"]
    ]_vars

\* C22 witness: a poll() raised in its L2 section after its L1 section had
\* persisted a record and moved the L1 cursor past the block it started from.
C22_Witness ==
  /\ pc[1] = "idle"
  /\ result[1] = "raised"
  /\ failed[1] = {"L2"}
  /\ loc[1].from["L1"] <= progress["L1"]
  /\ progress["L2"] = loc[1].lastScanned["L2"]
  /\ store # {}

\* ------------------------------------------------- the cursor and two writers
\* The instance completes the cursor write of the chain.
WritesCursor(i, chain) == pc[i] = "set" \o chain /\ pc'[i] # pc[i]

\* C23: the progress store does not enforce monotonicity. Each cursor write of
\* poll() stores toChain whatever the stored cursor is, also when toChain is
\* smaller; a write lowers the cursor only when the writer read its cursor before
\* another instance moved it. With two instances the cursor does come to lie below
\* a value it held (the witness).
C23_StoreNotMonotonic ==
  [][\A i \in live : \A chain \in Chains :
       WritesCursor(i, chain) =>
         /\ progress'[chain] = loc[i].to[chain]
         /\ progress'[chain] < progress[chain] =>
              loc[i].lastScanned[chain] < progress[chain]
    ]_vars

\* C23 witness: the L1 cursor is below the last block of a window whose cursor
\* write completed earlier.
C23_Witness ==
  /\ \E b \in windows["L1"].blocks : b > progress["L1"]
  /\ progress["L1"] > 0
  /\ live = Instances

\* ------------------------------------------------------ the allow-list scan
\* Longest list of logs the mapping is applied to on its own.
MaxLogs == 2

\* The log carries an address and a status (a status of 0 counts as none).
Carries(log) ==
  /\ log.eventName = "StatusUpdated"
  /\ Has(log.args, "addr")
  /\ Has(log.args, "status")
  /\ log.args.status # 0

\* The name of a status code.
StatusName(status) ==
  CASE status = 1 -> "PROPOSED" [] status = 2 -> "ACCEPTED" [] status = 3 -> "REJECTED"

\* The records are, log by log, those of the logs that carry address and status.
ScanOf(logs, records) ==
  LET carrying == SelectSeq(logs, Carries) IN
  /\ Len(records) = Len(carrying)
  /\ \A k \in 1..Len(carrying) :
       LET log == carrying[k]
           record == records[k]
           resolution == StatusName(log.args.status) \in {"ACCEPTED", "REJECTED"}
       IN /\ record.l1Address = Some(ToLowerCase(log.args.addr))
          /\ record.l1AllowListStatus = Some(StatusName(log.args.status))
          /\ Has(record, "l1AllowListResolutionTx") <=> resolution
          /\ Has(record, "l1AllowListProposalTx") <=> ~resolution
          /\ resolution => record.l1AllowListResolutionTx = Some(log.transactionHash)
          /\ ~resolution => record.l1AllowListProposalTx = Some(log.transactionHash)

Correlated(portalLog, inboxLogs) ==
  \E k \in 1..Len(inboxLogs) : inboxLogs[k].transactionHash = portalLog.transactionHash

\* The L1 scan of the window skips the portal logs without inbox log, warns once
\* for each, emits the record of every other log, and does not raise.
SkipsUncorrelated(a, b) ==
  LET portalLogs == getLogs(PortalLogs, a, b)
      inboxLogs == getLogs(InboxLogs, a, b)
      kept == SelectSeq(portalLogs, LAMBDA l : Correlated(l, inboxLogs))
      registrations == getL1TokenRegistrations(a, b)
      warnings == CorrelationWarnings(portalLogs, inboxLogs)
  IN /\ ~ScanThrows(registrations)
     /\ Len(registrations) = Len(kept)
     /\ \A k \in 1..Len(kept) :
          /\ registrations[k].l1RegistrationTx = Some(kept[k].transactionHash)
          /\ registrations[k].l1Address = Some(ToLowerCase(kept[k].args.token))
     /\ Len(warnings) = Len(portalLogs) - Len(kept)
     /\ \A k \in 1..Len(warnings) : \E l \in Range(portalLogs) :
          l.transactionHash = warnings[k] /\ ~Correlated(l, inboxLogs)

\* The allow-list scan of the window skips the logs that lack address or status,
\* warns once for each, emits the records of the others, and does not raise; the
\* store function gives each of them its row.
SkipsIncomplete(a, b) ==
  LET logs == getLogs(AllowListLogs, a, b)
      events == getL1TokenAllowListEvents(a, b)
      warnings == AllowListWarnings(a, b)
  IN /\ ~ScanThrows(events)
     /\ events = MapAllowListLogs(SelectSeq(logs, Carries))
     /\ Len(events) + Len(warnings) = Len(logs)
     /\ \A k \in 1..Len(warnings) : \E l \in Range(logs) :
          l.transactionHash = warnings[k] /\ ~Carries(l)
     /\ \A e \in Range(events) :
          RowsOf(storeL1TokenAllowListEvents(store, events, clock), e.l1Address) # {}

\* The L2 record with its L1 address undefined, null or empty.
WithoutL1Address(r) ==
  {[k \in DOMAIN r \ {"l1Address"} |-> r[k]],
   [r EXCEPT !.l1Address = Null], [r EXCEPT !.l1Address = Some("")]}

\* storeL2TokenRegistrations skips a record without L1 address and upserts the
\* records before and after it.
SkipsUnkeyed ==
  \A r \in L2Records : \A bad \in WithoutL1Address(r) : \A other \in L2Records :
    /\ storeL2TokenRegistrations(store, <<bad>>, clock) = store
    /\ storeL2TokenRegistrations(store, <<bad, other>>, clock)
         = storeL2TokenRegistrations(store, <<other>>, clock)
    /\ storeL2TokenRegistrations(store, <<other, bad>>, clock)
         = storeL2TokenRegistrations(store, <<other>>, clock)
    /\ RowsOf(storeL2TokenRegistrations(store, <<bad, other>>, clock),
              other.l1Address) # {}

\* The cursor write of the chain completes in this step of the instance.
CursorWritten(i, chain) ==
  /\ pc[i] = "set" \o chain
  /\ pc'[i] # pc[i]
  /\ ~(pc'[i] = "idle" /\ result'[i] = "raised")

\* C25: data-integrity anomalies are never fatal. The L1 scan poll() awaits skips
\* the portal logs of its window that have no inbox log, warns, emits every other
\* record and does not raise, and neither does the L2 scan; when poll() writes the
\* cursor of a window, the cursor is the end of the window and every record of the
\* window has been upserted and has its row. Whenever a poll() begins, and for
\* every window, the allow-list scan skips the logs lacking address or status,
\* warns and emits the others, which the store gives their rows, and the store
\* skips an L2 record without L1 address and upserts the others.
C25_AnomaliesNotFatal ==
  [][\A i \in live :
       /\ (pc[i] = "idle" /\ pc'[i] # "idle") =>
            /\ \A a \in 1..MaxBlock : \A b \in a..MaxBlock : SkipsIncomplete(a, b)
            /\ SkipsUnkeyed
       /\ pc[i] = "scanL1" => SkipsUncorrelated(loc[i].from["L1"], loc[i].to["L1"])
       /\ \A chain \in Chains :
            /\ pc[i] = "scan" \o chain =>
                 ~ScanThrows(Scanner(chain, loc[i].from[chain], loc[i].to[chain]))
            /\ CursorWritten(i, chain) =>
                 /\ progress'[chain] = loc[i].to[chain]
                 /\ \A r \in Issued(chain, Scanner(chain, loc[i].from[chain],
                                                   loc[i].to[chain])) :
                      r \in applied /\ RowsOf(store', r.l1Address) # {}
    ]_vars

\* C25 witness: one poll() scanned the L1 window 1..2, which holds the registration
\* of 0xA1 and a portal log without inbox log; it did not raise, the row of 0xa1 is
\* there and the L1 cursor is 2.
C25_Witness ==
  /\ pc[1] = "idle"
  /\ result[1] \in {"true", "false"}
  /\ config["L1"] = [startBlock |-> 0, chunkSize |-> 2]
  /\ progress["L1"] = 2
  /\ windows["L1"].blocks = {1, 2}
  /\ ~windows["L1"].overlap
  /\ RowsOf(store, Some("0xa1")) # {}
  /\ RowsOf(store, Some("0xb2")) = {}

\* ------------------------------------------------- a malformed rollup address
MalformedInit ==
  \E cfg \in Configs : InitWith(cfg, {1}) /\ DriverOn(FullEnv, "start", L2EventsMalformed)

\* One collector instance polling an L2 chain that holds a malformed rollup
\* address, with any await able to reject.
MalformedSpec == MalformedInit /\ [][Next]_vars

\* The rollup address of the event does not start with "0x" or is not 66 long.
Malformed(event) ==
  ~(StartsWith0x(event.aztecToken) /\ Length(event.aztecToken) = 66)

\* The blocks of the L2 chain that hold an event with a malformed rollup address.
MalformedBlocks == { e.blockNumber : e \in { x \in Range(rollup) : Malformed(x) } }

\* The L2 cursor is before every malformed block that the scan starts at or before,
\* and no row carries the rollup address of an event of such a block or a later one.
StuckBefore(cursor, table) ==
  \A bad \in MalformedBlocks :
    FirstBlock("L2") <= bad =>
      /\ cursor < bad
      /\ \A e \in Range(rollup) :
           e.blockNumber >= bad =>
             \A row \in table : row.l2Address # Some(ToLowerCase(e.aztecToken))

\* C26: malformed rollup address. normalizeL2Address returns the lowercased string
\* for exactly the strings that start with "0x" and are 66 long, and raises for
\* every other; a poll() whose L2 window holds an event with another rollup
\* address raises out of the L2 scan, writing no row and no cursor; and the L2
\* cursor is never at or past the block of such an event, nor is a row ever given
\* the rollup address of an event of that block or a later one.
C26_MalformedL2Address ==
  [][/\ \A s \in AddressStrings :
          normalizeL2Address(s) =
            IF StartsWith0x(s) /\ Length(s) = 66 THEN ToLowerCase(s) ELSE "throw"
     /\ \A i \in live :
          (/\ pc[i] = "scanL2"
           /\ \E e \in Range(getLogs(rollup, loc[i].from["L2"], loc[i].to["L2"])) :
                Malformed(e))
          => /\ pc'[i] = "idle"
             /\ result'[i] = "raised"
             /\ store' = store
             /\ progress' = progress
     /\ StuckBefore(progress["L2"], store)
     /\ StuckBefore(progress'["L2"], store')
    ]_vars

\* C26 witness: the scan of the L2 window 2..2 raised; the event of block 1 has its
\* row, the L2 cursor is 1 and the L1 cursor is ahead of it.
C26_Witness ==
  /\ MalformedBlocks = {2}
  /\ pc[1] = "idle"
  /\ result[1] = "raised"
  /\ failed[1] = {"L2"}
  /\ loc[1].from["L2"] = 2
  /\ progress["L2"] = 1
  /\ progress["L1"] > 1
  /\ \E row \in store : row.l2Address = Some("0xaz02")

\* ------------------------------------------------- the datastore handle (db.ts)
\* Most handles createDbClient() makes.
MaxHandles == 2
\* Most calls of getDatabase() and destroyDatabase() that are followed.
MaxCalls == 4

\* Who calls destroyDatabase(): the two signal handlers of main(), which exit the
\* process afterwards, and any other caller, which does not.
Paths == {"SIGINT", "SIGTERM", "caller"}

\* `await destroyDatabase()` of the path is over: the signal handlers go on to
\* process.exit(0).
Destroyed(path, after) ==
  IF path = "caller" THEN after ELSE [after EXCEPT !.exit = Some(0)]

\* getDatabase(): the handle the module holds, or a new one; 0 stands for the
\* Error thrown without DATABASE_URL.
GetDatabase ==
  /\ db.exit = Null
  /\ Len(db.log) < MaxCalls
  /\ IF db.handle # 0
     THEN db' = [db EXCEPT !.log = Append(@, [call |-> "get", handle |-> db.handle])]
     ELSE IF getDatabaseThrows(env)
     THEN db' = [db EXCEPT !.log = Append(@, [call |-> "get", handle |-> 0])]
     ELSE /\ db.made < MaxHandles
          /\ db' = [db EXCEPT !.handle = db.made + 1, !.made = db.made + 1,
                              !.log = Append(@, [call |-> "get", handle |-> db.made + 1])]
  /\ UNCHANGED <<config, progress, store, clock, pc, loc, result, seen, applied,
                 windows, failed, live, env, main, timer, client, served, rollup>>

\* destroyDatabase() up to its await: with no handle it returns; with a handle
\* whose client is not ended it calls client.end() and awaits it; with one whose
\* client is ended it drops the handle. The client sets `ended` during end() or
\* later, before the promise of end() resolves.
DestroyDatabase(path) ==
  /\ db.exit = Null
  /\ Len(db.log) < MaxCalls
  /\ \A c \in db.closing : c.path # path
  /\ LET called == [db EXCEPT !.log = Append(@, [call |-> "destroy", handle |-> db.handle])]
     IN IF db.handle = 0 THEN db' = Destroyed(path, called)
        ELSE IF db.handle \notin db.ended
        THEN \E endedAtOnce \in BOOLEAN :
               db' = [called EXCEPT
                        !.ends = Append(@, db.handle),
                        !.ended = IF endedAtOnce THEN @ \cup {db.handle} ELSE @,
                        !.closing = @ \cup {[path |-> path, handle |-> db.handle]}]
        ELSE db' = Destroyed(path, [called EXCEPT !.handle = 0])
  /\ UNCHANGED <<config, progress, store, clock, pc, loc, result, seen, applied,
                 windows, failed, live, env, main, timer, client, served, rollup>>

\* The awaited client.end() resolves: destroyDatabase() sets db = null and returns.
EndResolves(path) ==
  /\ db.exit = Null
  /\ \E c \in db.closing :
       /\ c.path = path
       /\ db' = Destroyed(path,
                  [db EXCEPT !.closing = @ \ {c}, !.ended = @ \cup {c.handle},
                             !.handle = 0,
                             !.log = Append(@, [call |-> "destroyed", handle |-> c.handle])])
  /\ UNCHANGED <<config, progress, store, clock, pc, loc, result, seen, applied,
                 windows, failed, live, env, main, timer, client, served, rollup>>

\* The awaited client.end() rejects: destroyDatabase() rejects with db as it is; in
\* a signal handler that is an unhandled rejection.
EndRejects(path) ==
  /\ db.exit = Null
  /\ \E c \in db.closing :
       /\ c.path = path
       /\ db' = [db EXCEPT !.closing = @ \ {c},
                           !.exit = IF path = "caller" THEN Null ELSE Some(1)]
  /\ UNCHANGED <<config, progress, store, clock, pc, loc, result, seen, applied,
                 windows, failed, live, env, main, timer, client, served, rollup>>

HandleInit ==
  \E unset \in SUBSET {"DATABASE_URL"} :
    /\ InitWith(ConfigOf(FullEnv), {})
    /\ Driver(Without(FullEnv, unset), "start")

HandleNext ==
  \/ GetDatabase
  \/ \E path \in Paths : DestroyDatabase(path)
  \/ \E path \in Paths : EndResolves(path)
  \/ \E path \in Paths : EndRejects(path)

\* The handle of the collector process under any sequence of getDatabase() and
\* destroyDatabase() calls, the latter also from the signal handlers.
HandleSpec == HandleInit /\ [][HandleNext]_vars

\* The number of client.end() calls on the handle.
Ends(h) == Cardinality({k \in 1..Len(db.ends) : db.ends[k] = h})

\* The handles getDatabase() returned in the calls before the k-th entry.
ReturnedBefore(k) ==
  {db.log[j].handle : j \in {x \in 1..(k - 1) : db.log[x].call = "get"}}

\* C27: datastore handle lifecycle. Two getDatabase() calls with no
\* destroyDatabase() call or return between them give the same handle; the first
\* getDatabase() after a destroyDatabase() that dropped a handle gives a handle
\* never given before; destroyDatabase() without a handle changes nothing; and
\* client.end() is called at most once on each handle, also when destroyDatabase()
\* calls from the signal handlers overlap.
C27_HandleLifecycle ==
  /\ \A k \in 2..Len(db.log) :
       /\ (db.log[k].call = "get" /\ db.log[k - 1].call = "get") =>
            db.log[k].handle = db.log[k - 1].handle
       /\ (/\ db.log[k].call = "get" /\ db.log[k].handle # 0
           /\ \/ db.log[k - 1].call = "destroyed"
              \/ db.log[k - 1].call = "destroy" /\ db.log[k - 1].handle = 0) =>
            db.log[k].handle \notin ReturnedBefore(k)
  /\ \A h \in 1..db.made : Ends(h) <= 1
  /\ \A k \in 1..Len(db.ends) : db.ends[k] \in 1..db.made

\* ------------------------------------------------------------ catching up
\* The service in start() on chains whose heads no longer move, with chunk sizes
\* of at least 1; any await can still reject.
CatchUpInit ==
  \E cfg \in {c \in Configs : \A chain \in Chains : c[chain].chunkSize >= 1} :
    InitWith(cfg, {1}) /\ Driver(FullEnv, "start")

CatchUpNext ==
  \/ \E i \in live : CallPoll(i)
  \/ \E i \in live : GetHeadsAmong(i, {StillHeads}) /\ InLoop(i)
  \/ \E i \in live : ScanL1(i) /\ InLoop(i)
  \/ \E i \in live : StoreL1(i) /\ InLoop(i)
  \/ \E i \in live : SetL1(i) /\ InLoop(i)
  \/ \E i \in live : ScanL2(i) /\ InLoop(i)
  \/ \E i \in live : StoreL2(i) /\ InLoop(i)
  \/ \E i \in live : SetL2(i) /\ InLoop(i)
  \/ \E i \in live : Fail(i) /\ InLoop(i)
  \/ \E i \in live : Elapse(i)

\* Every pending await settles and the timer fires.
CatchUpSpec == CatchUpInit /\ [][CatchUpNext]_vars /\ WF_vars(CatchUpNext)

\* poll() of the instance raises in this step.
Raises(i) == pc[i] # "idle" /\ pc'[i] = "idle" /\ result'[i] = "raised"

\* C28: catch-up liveness. With heads at rest and chunk sizes of at least 1, each
\* cursor write of poll() raises the cursor of its chain, and if from some point
\* on no poll() raises, start() reaches a poll() that returns true.
C28_CatchUpLiveness ==
  /\ [][\A i \in live : \A chain \in Chains :
          CursorWritten(i, chain) => progress'[chain] > progress[chain]]_vars
  /\ (<>[][\A i \in live : ~Raises(i)]_vars)
       => <>(pc[1] = "idle" /\ result[1] = "true")

\* C28 witness: after a poll() that raised, later calls wrote both cursors up to
\* the heads, and the last poll() returned true.
C28_Witness ==
  /\ pc[1] = "idle"
  /\ result[1] = "true"
  /\ timer[1] = PollingInterval
  /\ \A chain \in Chains : progress[chain] = StillHeads[chain]
  /\ \A chain \in Chains : windows[chain].any
  /\ Cardinality(store) = 2

\* ------------------------------------------------- an L1 failure and L2
\* The columns storeL2TokenRegistrations supplies.
L2Columns ==
  {"l2Address", "l2RegistrationBlock", "l2RegistrationTxIndex", "l2RegistrationLogIndex"}

\* The given columns of every row of the second table are what they are in the
\* first table, NULL where the first table has no row of the address.
SameColumns(columns, before, after) ==
  \A row \in after : \A c \in columns :
    /\ \A old \in RowsOf(before, row.l1Address) : row[c] = old[c]
    /\ RowsOf(before, row.l1Address) = {} => row[c] = Null

\* C29: an L1 failure aborts the poll before L2 is touched. No step of the L1
\* section of poll() (scan, persistence, cursor write, or the failure of one of
\* them) issues an L2 scan, moves the L2 cursor or changes a column that L2
\* records supply; and when the L1 section raises, no L2 scan was issued in the
\* call and the L2 cursor is the one the call read at its start.
C29_L1FailureLeavesL2 ==
  [][\A i \in live :
       pc[i] \in {"scanL1", "storeL1", "setL1"} =>
         /\ "L2" \notin loc[i].scanned /\ "L2" \notin loc'[i].scanned
         /\ progress'["L2"] = progress["L2"]
         /\ SameColumns(L2Columns, store, store')
         /\ Raises(i) =>
              /\ pc'[i] = "idle"
              /\ progress'["L2"] = loc[i].lastScanned["L2"]
              /\ store' = store
    ]_vars

\* ------------------------------------------------- api-service: a page of tokens
\* Most items tokenService.getTokens() resolves with.
MaxItems == 3
\* Highest row id of a token.
MaxId == 2

\* Strings of the query and of the response are sequences of characters.
Digits == <<"0", "1", "2", "3", "4", "5", "6", "7", "8", "9">>

IsDigit(c) == \E d \in 1..10 : Digits[d] = c

DigitValue(c) == (CHOOSE d \in 1..10 : Digits[d] = c) - 1

\* The decimal digits a string begins with.
RECURSIVE DigitsPrefix(_)
DigitsPrefix(s) ==
  IF s = <<>> \/ ~IsDigit(Head(s)) THEN <<>>
  ELSE <<Head(s)>> \o DigitsPrefix(Tail(s))

RECURSIVE ValueOf(_)
ValueOf(digits) ==
  IF digits = <<>> THEN 0
  ELSE ValueOf(SubSeq(digits, 1, Len(digits) - 1)) * 10 + DigitValue(digits[Len(digits)])

\* parseInt(val, 10): an optional sign and the digits that follow it; NaN (Null)
\* when there is no digit.
ParseInt(s) ==
  LET negative == s # <<>> /\ Head(s) = "-"
      digits == DigitsPrefix(IF negative THEN Tail(s) ELSE s)
  IN IF digits = <<>> THEN Null
     ELSE Some(IF negative THEN 0 - ValueOf(digits) ELSE ValueOf(digits))

\* Number.prototype.toString() of an integer.
RECURSIVE NumberToString(_)
NumberToString(n) ==
  IF n < 0 THEN <<"-">> \o NumberToString(0 - n)
  ELSE IF n < 10 THEN <<Digits[n + 1]>>
  ELSE NumberToString(n \div 10) \o <<Digits[(n % 10) + 1]>>

\* paginationSchema.limit. An absent and an empty parameter are both Null.
DefaultPageLimit == 100
MaxPageLimit == 1000

LimitOf(val) ==
  IF val = Null THEN DefaultPageLimit
  ELSE LET num == ParseInt(val)
       IN IF num # Null /\ num[1] > 0 /\ num[1] <= MaxPageLimit THEN num[1]
          ELSE DefaultPageLimit

\* paginationSchema.cursor.
CursorOf(val) ==
  IF val = Null THEN 0
  ELSE LET num == ParseInt(val)
       IN IF num # Null /\ num[1] >= 0 THEN num[1] ELSE 0

\* The values of the query parameters limit and cursor.
LimitQueries ==
  {Null, <<"0">>, <<"1">>, <<"2">>, <<"2", "x">>, <<"x">>, <<"-", "1">>,
   <<"1", "0", "0", "0">>, <<"1", "0", "0", "1">>}

CursorQueries == {Null, <<"0">>, <<"1">>, <<"1", "2">>, <<"-", "1">>, <<"x">>}

\* The tokens handed to createPaginatedResponse; id is optional in the api type.
ApiTokens ==
  {[symbol |-> "TOKEN1"]} \cup {[symbol |-> "TOKEN1", id |-> n] : n \in 0..MaxId}

\* (token) => token.id || 0
GetItemId(token) == IF Has(token, "id") /\ token.id # 0 THEN token.id ELSE 0

\* items.slice(0, -1)
SliceButLast(items) == SubSeq(items, 1, Len(items) - 1)

\* Faulty variant: a full page counts as one with more to come.
createPaginatedResponseAtLimit(items, limit, cursor) ==
  LET hasMore == Len(items) >= limit
      resultItems == IF hasMore THEN SliceButLast(items) ELSE items
      nextCursor ==
        IF Len(resultItems) > 0 THEN NumberToString(GetItemId(resultItems[Len(resultItems)]))
        ELSE Null
  IN [data |-> resultItems,
      pagination |->
        [limit |-> limit,
         cursor |-> IF cursor > 0 THEN NumberToString(cursor) ELSE Null,
         next_cursor |-> IF hasMore THEN nextCursor ELSE Null,
         has_more |-> hasMore]]

createPaginatedResponse(items, limit, cursor) ==
  LET hasMore == Len(items) > limit
      resultItems == IF hasMore THEN SliceButLast(items) ELSE items
      nextCursor ==
        IF Len(resultItems) > 0 THEN NumberToString(GetItemId(resultItems[Len(resultItems)]))
        ELSE Null
  IN [data |-> resultItems,
      pagination |->
        [limit |-> limit,
         cursor |-> IF cursor > 0 THEN NumberToString(cursor) ELSE Null,
         next_cursor |-> IF hasMore THEN nextCursor ELSE Null,
         has_more |-> hasMore]]

\* GET /tokens: the query is parsed, tokenService.getTokens() resolves with the
\* tokens, and the page made of them is sent.
GetTokensRoute(limitVal, cursorVal, apiTokens) ==
  /\ ~served.handled
  /\ served' =
       [handled |-> TRUE,
        query |-> [limit |-> limitVal, cursor |-> cursorVal],
        limit |-> LimitOf(limitVal),
        cursor |-> CursorOf(cursorVal),
        items |-> apiTokens,
        status |-> 200,
        response |->
          Some(createPaginatedResponse(apiTokens, LimitOf(limitVal), CursorOf(cursorVal)))]
  /\ UNCHANGED <<config, progress, store, clock, pc, loc, result, seen, applied,
                 windows, failed, live, env, main, timer, db, client, rollup>>

\* GET /tokens when tokenService.getTokens() rejects.
GetTokensRouteFails(limitVal, cursorVal) ==
  /\ ~served.handled
  /\ served' =
       [handled |-> TRUE,
        query |-> [limit |-> limitVal, cursor |-> cursorVal],
        limit |-> LimitOf(limitVal),
        cursor |-> CursorOf(cursorVal),
        items |-> <<>>,
        status |-> 500,
        response |-> Some([error |-> "Database error"])]
  /\ UNCHANGED <<config, progress, store, clock, pc, loc, result, seen, applied,
                 windows, failed, live, env, main, timer, db, client, rollup>>

\* The reply is out; the route waits for the next request.
AwaitRequest ==
  /\ served.handled
  /\ served' = NoRequest
  /\ UNCHANGED <<config, progress, store, clock, pc, loc, result, seen, applied,
                 windows, failed, live, env, main, timer, db, client, rollup>>

PageInit == InitWith(NoConfig, {}) /\ Driver(FullEnv, "start")

PageNext ==
  \/ \E limitVal \in LimitQueries : \E cursorVal \in CursorQueries :
       \E apiTokens \in SeqsUpTo(ApiTokens, MaxItems) :
         GetTokensRoute(limitVal, cursorVal, apiTokens)
  \/ \E limitVal \in LimitQueries : \E cursorVal \in CursorQueries :
       GetTokensRouteFails(limitVal, cursorVal)
  \/ AwaitRequest

\* Requests GET /tokens handled one after another.
PageSpec == PageInit /\ [][PageNext]_vars

\* C30: page construction. For an item list of at most limit + 1 items the page
\* sent holds the first limit items of the list in order (all of them when there
\* are fewer), has_more is true exactly when the list had limit + 1 items,
\* next_cursor reads as the id of the last item of the page when has_more is
\* true and is null otherwise, and cursor reads as the request cursor, null
\* when that is 0.
C30_PageConstruction ==
  (served.handled /\ served.status = 200 /\ Len(served.items) <= served.limit + 1) =>
    LET page == served.response[1]
        count == Min(Len(served.items), served.limit)
    IN /\ Len(page.data) <= served.limit
       /\ page.data = SubSeq(served.items, 1, count)
       /\ page.pagination.has_more = (Len(served.items) = served.limit + 1)
       /\ IF page.pagination.has_more
            THEN /\ page.pagination.next_cursor # Null
                 /\ ParseInt(page.pagination.next_cursor) =
                      Some(GetItemId(page.data[Len(page.data)]))
            ELSE page.pagination.next_cursor = Null
       /\ IF served.cursor = 0
            THEN page.pagination.cursor = Null
            ELSE ParseInt(page.pagination.cursor) = Some(served.cursor)

\* C30 witness: a request with limit 2 and cursor 12 was answered from three
\* tokens: two of them sent, more to come after the second one's id.
C30_Witness ==
  /\ served.handled /\ served.status = 200
  /\ served.limit = 2 /\ served.cursor = 12
  /\ Len(served.items) = 3
  /\ served.response[1].pagination.has_more
  /\ Len(served.response[1].data) = 2
  /\ served.response[1].pagination.next_cursor = <<"2">>
  /\ served.response[1].pagination.cursor = <<"1", "2">>
====
